---- MODULE Spec2Model ----
(***************************************************************************)
(* Token revocation in the auth-service repository: the logout service's   *)
(* blacklist store (BlacklistedToken), its controllers (logout, logoutAll, *)
(* invalidateToken, checkToken, cleanupTokens), the authentication         *)
(* middleware (authenticateToken, optionalAuth), the JWT helpers, and the  *)
(* demo ("simple") login and logout servers.                               *)
(*                                                                         *)
(* A request is a record in a slot of reqs; every step of a handler is the *)
(* code between two awaits, so that database operations of different       *)
(* requests interleave exactly where the event loop lets them.             *)
(* Time is counted in whole seconds, the unit of the JWT exp claim.        *)
(***************************************************************************)
EXTENDS Integers, Sequences, FiniteSets, TLC

VARIABLES now, secretsEqual, users, issued, nlogins, blacklist, reqs,
          everRevoked, loggedOut, accounts

vars == <<now, secretsEqual, users, issued, nlogins, blacklist, reqs,
          everRevoked, loggedOut, accounts>>

(***************************** bounds **************************************)
MaxTime == 2
AccessTTL == 1
RefreshTTL == 2
DayLen == 2
\* The batch a bounded reaper would remove in one run.  The code has no such
\* number: whatever it is, a backlog one larger shows the difference.
BatchSize == 1

(***************************** tokens **************************************)
Users == {"u1"}
NoUser == "none"
Kinds == {"access", "refresh"}
AllSlots == {1, 2}

\* A serialized JWT: the claims it carries and the secret that signed it.
\* sig = "bad" is a string whose signature or structure does not verify,
\* sig = "absent" stands for no token at all (no header, no cookie, no field).
NoToken == [type |-> "none", userId |-> NoUser, exp |-> 0, sig |-> "absent", id |-> 0]
Garbage == [type |-> "none", userId |-> NoUser, exp |-> 0, sig |-> "bad", id |-> 0]

generateAccessToken(u, n) ==
  [type |-> "access", userId |-> u, exp |-> now + AccessTTL, sig |-> "access", id |-> n]

generateRefreshToken(u, n) ==
  [type |-> "refresh", userId |-> u, exp |-> now + RefreshTTL, sig |-> "refresh", id |-> n]

\* jwt.sign({userId, email}, JWT_SECRET, {expiresIn: '24h'}) of the demo login
\* server: no type claim.
simpleSign(u) ==
  [type |-> "none", userId |-> u, exp |-> now + DayLen, sig |-> "access", id |-> 0]

\* jwt.verify(token, secret): signature first, expiry second.
JwtVerify(t, secret) ==
  IF ~(t.sig = secret \/ (secretsEqual /\ t.sig \in Kinds)) THEN "JsonWebTokenError"
  ELSE IF now >= t.exp THEN "TokenExpiredError"
  ELSE "ok"

verifyAccessToken(t) ==
  CASE JwtVerify(t, "access") = "ok" -> "ok"
    [] JwtVerify(t, "access") = "TokenExpiredError" -> "Access token expired"
    [] JwtVerify(t, "access") = "JsonWebTokenError" -> "Invalid access token"

verifyRefreshToken(t) ==
  CASE JwtVerify(t, "refresh") = "ok" -> "ok"
    [] JwtVerify(t, "refresh") = "TokenExpiredError" -> "Refresh token expired"
    [] JwtVerify(t, "refresh") = "JsonWebTokenError" -> "Invalid refresh token"

\* String.prototype.includes on the messages above, which is case sensitive:
\* the words each message contains among those the handlers look for.
MessageWords(msg) ==
  CASE msg = "Access token expired" -> {"expired"}
    [] msg = "Refresh token expired" -> {"expired"}
    [] msg = "Invalid access token" -> {}
    [] msg = "Invalid refresh token" -> {}
    [] msg = "store error" -> {}
    [] OTHER -> {}

Includes(msg, word) == word \in MessageWords(msg)

(***************************** the store ***********************************)
\* A BlacklistedToken document.  reason and blacklistedAt take the schema
\* defaults when the caller does not supply them.
Entry(t, kind, u, exp, why) ==
  [token |-> t, tokenType |-> kind, userId |-> u, expiresAt |-> exp,
   blacklistedAt |-> now, reason |-> why]

findOne(t) == {e \in blacklist : e.token = t}

isBlacklisted(t) == findOne(t) # {}

\* The unique index on token: an insert of a second document with the same
\* token fails with E11000.
DuplicateKey_none(e) == FALSE

DuplicateKey(e) == \E x \in blacklist : x.token = e.token

create(e) == IF DuplicateKey(e) THEN blacklist ELSE blacklist \cup {e}

Expired_early(e) == e.expiresAt <= now + 1

Expired_strict(e) == e.expiresAt < now

Expired(e) == e.expiresAt <= now

deleteMany_all == {}

deleteMany_none == blacklist

\* What deleteMany({ expiresAt: { $lte: new Date() } }) leaves in the store.
deleteMany == {e \in blacklist : ~Expired(e)}

(***************************** requests ************************************)
Idle ==
  [op |-> "idle", pc |-> "idle", bearer |-> NoToken, cookie |-> NoToken,
   body |-> NoToken, btype |-> "none", user |-> NoUser, doc |-> << >>,
   docv |-> 0, mem |-> << >>, sessions |-> << >>, held |-> << >>, idx |-> 0,
   status |-> 0, error |-> "none", cleared |-> FALSE, isBl |-> FALSE,
   count |-> 0, ent |-> {}, why |-> "none", subj |-> NoToken, orig |-> {},
   rev |-> FALSE, looked |-> FALSE, fault |-> FALSE, detail |-> "none",
   email |-> "none", pw |-> "none"]

\* What held when the request arrived: the store already had an entry for
\* the token the request is about.
Pre(r) == r.orig # {}


\* The response: status, error code, whether the refreshToken cookie is
\* cleared, and what the body says of an underlying exception (detail; the
\* handlers answer with fixed strings).  The request's own data ends with it;
\* what stays is the response, the token the request was about, the list
\* the subject had when a logout-all request arrived (held), whether the
\* gate consulted the store for it (looked) and whether the store failed
\* under it (fault).
Respond(r, st, err, clr) ==
  [Idle EXCEPT !.op = r.op, !.pc = "done", !.subj = r.subj, !.orig = r.orig,
               !.rev = r.rev, !.looked = r.looked, !.fault = r.fault,
               !.held = r.held,
               !.status = st, !.error = err, !.cleared = clr]

Set(s, r) == reqs' = [reqs EXCEPT ![s] = r]

Filter(seq, t) == SelectSeq(seq, LAMBDA x : x # t)

InList(t, list) == \E i \in 1..Len(list) : list[i] = t

Bearers == issued \cup {NoToken, Garbage}
Cookies == {t \in issued : t.type = "refresh"} \cup {NoToken, Garbage}

\* The tokens a well-behaved client holds.
Sessions == issued

AccessTokens == {t \in issued : t.type = "access"}

RefreshTokens == {t \in issued : t.type = "refresh"}

TypeOK ==
  /\ now \in 0..MaxTime
  /\ secretsEqual \in BOOLEAN
  /\ DOMAIN reqs = AllSlots

Init ==
  /\ now = 0
  /\ secretsEqual \in BOOLEAN
  /\ users = [u \in Users |-> [exists |-> TRUE, isActive |-> TRUE,
                              refreshTokens |-> << >>, v |-> 0]]
  /\ issued = {}
  /\ nlogins = 0
  /\ blacklist = {}
  /\ reqs = [s \in AllSlots |-> Idle]
  /\ everRevoked = {}
  /\ loggedOut = {}
  /\ accounts = {}

(***************************** environment *********************************)
Tick ==
  /\ now < MaxTime
  /\ now' = now + 1
  /\ UNCHANGED <<secretsEqual, users, issued, nlogins, blacklist, reqs,
                 everRevoked, loggedOut, accounts>>

\* The TTL index (expireAfterSeconds: 0): the database removes a document
\* whose expiresAt has passed, at a moment of its own choosing.
TTLExpire ==
  /\ \E e \in blacklist :
       /\ Expired(e)
       /\ blacklist' = blacklist \ {e}
  /\ UNCHANGED <<now, secretsEqual, users, issued, nlogins, reqs,
                 everRevoked, loggedOut, accounts>>

\* login: issues an access and a refresh token and stores the refresh token
\* on the user record.  cap is the number of logins the run allows.
\* addRefreshToken pushes onto the array: the save is a $push that increments
\* the document's version (__v) and carries no version filter.
Login(u, cap) ==
  /\ nlogins < cap
  /\ users[u].exists /\ users[u].isActive
  /\ LET a == generateAccessToken(u, nlogins + 1)
         r == generateRefreshToken(u, nlogins + 1)
     IN /\ issued' = issued \cup {a, r}
        /\ users' = [users EXCEPT ![u].refreshTokens = Append(@, r), ![u].v = @ + 1]
  /\ nlogins' = nlogins + 1
  /\ UNCHANGED <<now, secretsEqual, blacklist, reqs, everRevoked, loggedOut, accounts>>

\* The account behind a token is disabled (isActive: false) or gone from the
\* users collection: what the gate's USER_NOT_FOUND and ACCOUNT_DEACTIVATED
\* answers are for.
DeactivateUser(u) ==
  /\ users[u].exists /\ users[u].isActive
  /\ users' = [users EXCEPT ![u].isActive = FALSE]
  /\ UNCHANGED <<now, secretsEqual, issued, nlogins, blacklist, reqs,
                 everRevoked, loggedOut, accounts>>

RemoveUser(u) ==
  /\ users[u].exists
  /\ users' = [users EXCEPT ![u].exists = FALSE]
  /\ UNCHANGED <<now, secretsEqual, issued, nlogins, blacklist, reqs,
                 everRevoked, loggedOut, accounts>>

\* The database stops answering a request in flight: from here on every
\* Mongoose call of the request rejects.
InjectFault(s) ==
  /\ reqs[s].pc \notin {"idle", "done"}
  /\ ~reqs[s].fault
  /\ Set(s, [reqs[s] EXCEPT !.fault = TRUE])
  /\ UNCHANGED <<now, secretsEqual, users, issued, nlogins, blacklist,
                 everRevoked, loggedOut, accounts>>

(***************************** arrival *************************************)
\* The first stage of each route: the middleware chain of the router.
FirstStage(op) ==
  CASE op = "logout" -> "oa"
    [] op \in {"logoutAll", "invalidate", "me", "sessions"} -> "gate"
    [] op = "check" -> "ct_find"
    [] op = "cleanup" -> "cl_delete"
    [] op = "blacklistToken" -> "bt_create"
    [] op \in {"simpleLogout", "simpleLogoutAll"} -> "sv"
    [] op = "simpleInvalidate" -> "si"
    [] op = "simpleMe" -> "sme"

\* The token an operation is about: the body token of invalidate-token and
\* blacklistToken, the path parameter of check-token, the bearer otherwise.
Subject(op, bearer, body) ==
  IF op \in {"invalidate", "blacklistToken", "check", "simpleInvalidate"}
  THEN body ELSE bearer

Receive(s, op, bearer, cookie, body, btype, why) ==
  /\ reqs[s].pc = "idle"
  /\ Set(s, [Idle EXCEPT !.op = op, !.pc = FirstStage(op), !.bearer = bearer,
                         !.cookie = cookie, !.body = body, !.btype = btype,
                         !.why = why, !.subj = Subject(op, bearer, body),
                         !.orig = findOne(Subject(op, bearer, body)),
                         !.rev = bearer \in everRevoked,
                         !.held = IF op = "logoutAll" /\ bearer.userId \in Users
                                  THEN users[bearer.userId].refreshTokens
                                  ELSE << >>])
  /\ UNCHANGED <<now, secretsEqual, users, issued, nlogins, blacklist,
                 everRevoked, loggedOut, accounts>>

PostLogout(s, B, C) ==
  \E b \in B, c \in C : Receive(s, "logout", b, c, NoToken, "none", "none")

PostLogoutAll(s, B) ==
  \E b \in B : Receive(s, "logoutAll", b, NoToken, NoToken, "none", "none")

\* The body of /invalidate-token: a token and a tokenType, either of which
\* may be missing or wrong.
Bodies ==
  ((issued \cup {Garbage}) \X Kinds) \cup {<<NoToken, "access">>, <<Garbage, "bogus">>}

PostInvalidateToken(s, B, D) ==
  \E b \in B, d \in D :
     Receive(s, "invalidate", b, NoToken, d[1], d[2], "none")

GetCheckToken(s) ==
  \E t \in issued \cup {Garbage} : Receive(s, "check", NoToken, NoToken, t, "none", "none")

PostCleanupTokens(s) ==
  Receive(s, "cleanup", NoToken, NoToken, NoToken, "none", "none")

GetSessions(s, B) ==
  \E b \in B : Receive(s, "sessions", b, NoToken, NoToken, "none", "none")

GetMe(s) ==
  \E b \in Bearers : Receive(s, "me", b, NoToken, NoToken, "none", "none")

\* POST /auth/refresh: the refresh token travels in the refreshToken cookie.
PostRefresh(s, C) ==
  \E c \in C :
     /\ reqs[s].pc = "idle"
     /\ Set(s, [Idle EXCEPT !.op = "refresh", !.pc = "rf_verify", !.cookie = c,
                            !.subj = c, !.orig = findOne(c),
                            !.rev = c \in everRevoked])
     /\ UNCHANGED <<now, secretsEqual, users, issued, nlogins, blacklist,
                    everRevoked, loggedOut, accounts>>

CallBlacklistToken(s) ==
  \E t \in issued, w \in {"logout", "manual-invalidation"} :
     Receive(s, "blacklistToken", NoToken, NoToken, t, t.type, w)

(***************************** authenticateToken ***************************)
\* The catch block of authenticateToken.
AuthCatch_generic(r, msg) ==
  IF Includes(msg, "expired") THEN Respond(r, 401, "INVALID_TOKEN", FALSE)
  ELSE IF Includes(msg, "invalid") \/ Includes(msg, "malformed")
       THEN Respond(r, 401, "INVALID_TOKEN", FALSE)
  ELSE Respond(r, 500, "AUTH_FAILED", FALSE)

AuthCatch(r, msg) ==
  IF Includes(msg, "expired") THEN Respond(r, 401, "TOKEN_EXPIRED", FALSE)
  ELSE IF Includes(msg, "invalid") \/ Includes(msg, "malformed")
       THEN Respond(r, 401, "INVALID_TOKEN", FALSE)
  ELSE Respond(r, 500, "AUTH_FAILED", FALSE)

HandlerEntry(op) ==
  CASE op = "logoutAll" -> "la_access"
    [] op = "invalidate" -> "iv_check"
    [] op = "me" -> "me_find"
    [] op = "sessions" -> "gs_find"

authenticateToken_notype(r) ==
  IF r.bearer = NoToken THEN Respond(r, 401, "MISSING_TOKEN", FALSE)
  ELSE IF verifyAccessToken(r.bearer) # "ok" THEN AuthCatch(r, verifyAccessToken(r.bearer))
  ELSE IF isBlacklisted(r.bearer)
       THEN Respond([r EXCEPT !.looked = TRUE], 401, "TOKEN_BLACKLISTED", FALSE)
  ELSE [r EXCEPT !.pc = "gate_user", !.looked = TRUE]

\* Token extraction, verification, type check and the blacklist lookup.
authenticateToken(r) ==
  IF r.bearer = NoToken THEN Respond(r, 401, "MISSING_TOKEN", FALSE)
  ELSE IF verifyAccessToken(r.bearer) # "ok" THEN AuthCatch(r, verifyAccessToken(r.bearer))
  ELSE IF r.bearer.type # "access" THEN Respond(r, 401, "INVALID_TOKEN_TYPE", FALSE)
  ELSE IF r.fault THEN AuthCatch([r EXCEPT !.looked = TRUE], "store error")
  ELSE IF isBlacklisted(r.bearer)
       THEN Respond([r EXCEPT !.looked = TRUE], 401, "TOKEN_BLACKLISTED", FALSE)
  ELSE [r EXCEPT !.pc = "gate_user", !.looked = TRUE]

authenticateUser_inactive(r) ==
  IF ~users[r.bearer.userId].exists THEN Respond(r, 401, "USER_NOT_FOUND", FALSE)
  ELSE [r EXCEPT !.user = r.bearer.userId, !.pc = HandlerEntry(r.op)]

\* The user lookup and req.user.
authenticateUser(r) ==
  IF r.fault THEN AuthCatch(r, "store error")
  ELSE IF ~users[r.bearer.userId].exists THEN Respond(r, 401, "USER_NOT_FOUND", FALSE)
  ELSE IF ~users[r.bearer.userId].isActive THEN Respond(r, 401, "ACCOUNT_DEACTIVATED", FALSE)
  ELSE [r EXCEPT !.user = r.bearer.userId, !.pc = HandlerEntry(r.op)]

AuthCheck(s) ==
  /\ reqs[s].pc = "gate"
  /\ Set(s, authenticateToken(reqs[s]))
  /\ UNCHANGED <<now, secretsEqual, users, issued, nlogins, blacklist,
                 everRevoked, loggedOut, accounts>>

AuthUser(s) ==
  /\ reqs[s].pc = "gate_user"
  /\ Set(s, authenticateUser(reqs[s]))
  /\ UNCHANGED <<now, secretsEqual, users, issued, nlogins, blacklist,
                 everRevoked, loggedOut, accounts>>

(***************************** optionalAuth ********************************)
optionalAuth(r) ==
  IF r.bearer = NoToken THEN [r EXCEPT !.pc = "lo_access"]
  ELSE IF verifyAccessToken(r.bearer) # "ok" THEN [r EXCEPT !.pc = "lo_access"]
  ELSE IF r.bearer.type # "access" THEN [r EXCEPT !.pc = "lo_access"]
  ELSE [r EXCEPT !.pc = "oa_user"]

optionalUser(r) ==
  IF ~r.fault /\ users[r.bearer.userId].exists /\ users[r.bearer.userId].isActive
  THEN [r EXCEPT !.user = r.bearer.userId, !.pc = "lo_access"]
  ELSE [r EXCEPT !.pc = "lo_access"]

OptCheck(s) ==
  /\ reqs[s].pc = "oa"
  /\ Set(s, optionalAuth(reqs[s]))
  /\ UNCHANGED <<now, secretsEqual, users, issued, nlogins, blacklist,
                 everRevoked, loggedOut, accounts>>

OptUser(s) ==
  /\ reqs[s].pc = "oa_user"
  /\ Set(s, optionalUser(reqs[s]))
  /\ UNCHANGED <<now, secretsEqual, users, issued, nlogins, blacklist,
                 everRevoked, loggedOut, accounts>>

(***************************** user documents ******************************)
VersionError_never(u, docv) == FALSE

\* removeRefreshToken and removeAllRefreshTokens assign a whole new array and
\* call save().  The user schema keeps the default versionKey (its options
\* are timestamps and a toJSON transform that hides __v), so the update of a
\* replaced array carries the version the document was loaded with in its
\* filter and increments it; when the stored version differs, or the
\* document is gone, nothing matches and save() rejects with a VersionError.
VersionError(u, docv) == ~users[u].exists \/ users[u].v # docv

\* The stored record after a successful save of the replaced array.
Saved(u, list) == [users EXCEPT ![u].refreshTokens = list, ![u].v = @ + 1]

(***************************** logout **************************************)
ServerError_noclear(r, clr) == Respond(r, 500, "SERVER_ERROR", FALSE)

ServerError_leak(r, clr) ==
  [Respond(r, 500, "SERVER_ERROR", clr) EXCEPT !.detail = "error.message"]

\* The catch block of a handler: a fixed body, whatever was thrown.
ServerError(r, clr) == Respond(r, 500, "SERVER_ERROR", clr)

LogoutOk(r) == Respond(r, 200, "none", TRUE)

AccessEntry(t) == Entry(t, "access", t.userId, t.exp, "logout")

RefreshEntry(t) == Entry(t, "refresh", t.userId, t.exp, "logout")

\* verifyAccessToken followed by BlacklistedToken.create: either throws into
\* the handler's catch block.
BlacklistAccessFails(t) == verifyAccessToken(t) # "ok" \/ DuplicateKey(AccessEntry(t))

LogoutAccess_upsert(s) ==
  /\ reqs[s].pc = "lo_access"
  /\ LET r == reqs[s]
         t == r.bearer
     IN IF t # NoToken /\ verifyAccessToken(t) # "ok"
        THEN /\ Set(s, ServerError(r, TRUE))
             /\ UNCHANGED <<blacklist, everRevoked, loggedOut>>
        ELSE /\ blacklist' = IF t # NoToken
                              THEN {e \in blacklist : e.token # t} \cup {AccessEntry(t)}
                              ELSE blacklist
             /\ everRevoked' = IF t # NoToken THEN everRevoked \cup {t} ELSE everRevoked
             /\ IF r.cookie # NoToken /\ r.user # NoUser
                THEN /\ Set(s, [r EXCEPT !.pc = "lo_find"])
                     /\ UNCHANGED loggedOut
                ELSE /\ Set(s, LogoutOk(r))
                     /\ loggedOut' = IF t # NoToken THEN loggedOut \cup {t} ELSE loggedOut
  /\ UNCHANGED <<now, secretsEqual, users, issued, nlogins, accounts>>

\* logout, lines 17-29: blacklist the bearer token.
LogoutAccess(s) ==
  /\ reqs[s].pc = "lo_access"
  /\ LET r == reqs[s]
         t == r.bearer
     IN IF t # NoToken /\ (BlacklistAccessFails(t) \/ r.fault)
        THEN /\ Set(s, ServerError(r, TRUE))
             /\ UNCHANGED <<blacklist, everRevoked, loggedOut>>
        ELSE /\ blacklist' = IF t # NoToken THEN create(AccessEntry(t)) ELSE blacklist
             /\ everRevoked' = IF t # NoToken THEN everRevoked \cup {t} ELSE everRevoked
             /\ IF r.cookie # NoToken /\ r.user # NoUser
                THEN /\ Set(s, [r EXCEPT !.pc = "lo_find"])
                     /\ UNCHANGED loggedOut
                ELSE /\ Set(s, LogoutOk(r))
                     /\ loggedOut' = IF t # NoToken THEN loggedOut \cup {t} ELSE loggedOut
  /\ UNCHANGED <<now, secretsEqual, users, issued, nlogins, accounts>>

\* logout, line 33: User.findById(req.user.id).
LogoutFindUser(s) ==
  /\ reqs[s].pc = "lo_find"
  /\ LET r == reqs[s]
     IN Set(s, IF r.fault THEN ServerError(r, TRUE)
               ELSE [r EXCEPT !.doc = users[r.user].refreshTokens,
                              !.docv = users[r.user].v,
                              !.pc = IF users[r.user].exists THEN "lo_remove"
                                     ELSE "lo_refresh"])
  /\ UNCHANGED <<now, secretsEqual, users, issued, nlogins, blacklist,
                 everRevoked, loggedOut, accounts>>

\* logout, line 35: user.removeRefreshToken(refreshToken) saves the document
\* that findById loaded.  A filter that removes nothing leaves the document
\* unmodified and save() writes nothing; a VersionError goes to the catch.
LogoutRemoveRefresh(s) ==
  /\ reqs[s].pc = "lo_remove"
  /\ LET r == reqs[s]
         list == Filter(r.doc, r.cookie)
     IN IF r.fault
        THEN /\ Set(s, ServerError(r, TRUE))
             /\ UNCHANGED users
        ELSE IF list = r.doc
        THEN /\ Set(s, [r EXCEPT !.pc = "lo_refresh"])
             /\ UNCHANGED users
        ELSE IF VersionError(r.user, r.docv)
        THEN /\ Set(s, ServerError(r, TRUE))
             /\ UNCHANGED users
        ELSE /\ users' = Saved(r.user, list)
             /\ Set(s, [r EXCEPT !.pc = "lo_refresh"])
  /\ UNCHANGED <<now, secretsEqual, issued, nlogins, blacklist,
                 everRevoked, loggedOut, accounts>>

LogoutRefresh_abort(s) ==
  /\ reqs[s].pc = "lo_refresh"
  /\ LET r == reqs[s]
         c == r.cookie
         ok == verifyRefreshToken(c) = "ok" /\ ~DuplicateKey(RefreshEntry(c))
     IN /\ blacklist' = IF ok THEN create(RefreshEntry(c)) ELSE blacklist
        /\ everRevoked' = IF ok THEN everRevoked \cup {c} ELSE everRevoked
        /\ loggedOut' = IF ok /\ r.bearer # NoToken THEN loggedOut \cup {r.bearer} ELSE loggedOut
        /\ Set(s, IF ok THEN LogoutOk(r) ELSE ServerError(r, TRUE))
  /\ UNCHANGED <<now, secretsEqual, users, issued, nlogins, accounts>>

\* logout, lines 38-64: blacklist the refresh token inside its own try/catch,
\* clear the cookie, answer 200.
LogoutRefresh(s) ==
  /\ reqs[s].pc = "lo_refresh"
  /\ LET r == reqs[s]
         c == r.cookie
         ok == verifyRefreshToken(c) = "ok" /\ ~DuplicateKey(RefreshEntry(c)) /\ ~r.fault
     IN /\ blacklist' = IF ok THEN create(RefreshEntry(c)) ELSE blacklist
        /\ everRevoked' = IF ok THEN everRevoked \cup {c} ELSE everRevoked
        /\ loggedOut' = IF r.bearer # NoToken THEN loggedOut \cup {r.bearer} ELSE loggedOut
        /\ Set(s, LogoutOk(r))
  /\ UNCHANGED <<now, secretsEqual, users, issued, nlogins, accounts>>

(***************************** logoutAll ***********************************)
LogoutAllAccess_all(s) ==
  /\ reqs[s].pc = "la_access"
  /\ LET r == reqs[s]
         t == r.bearer
         mine == {a \in issued : a.type = "access" /\ a.userId = t.userId}
     IN IF BlacklistAccessFails(t)
        THEN /\ Set(s, ServerError(r, TRUE))
             /\ UNCHANGED <<blacklist, everRevoked>>
        ELSE /\ blacklist' = blacklist \cup {AccessEntry(a) : a \in {x \in mine : ~isBlacklisted(x)}}
             /\ everRevoked' = everRevoked \cup mine
             /\ Set(s, [r EXCEPT !.pc = "la_find"])
  /\ UNCHANGED <<now, secretsEqual, users, issued, nlogins, loggedOut, accounts>>

\* logoutAll, lines 91-102.
LogoutAllAccess(s) ==
  /\ reqs[s].pc = "la_access"
  /\ LET r == reqs[s]
         t == r.bearer
     IN IF BlacklistAccessFails(t) \/ r.fault
        THEN /\ Set(s, ServerError(r, TRUE))
             /\ UNCHANGED <<blacklist, everRevoked>>
        ELSE /\ blacklist' = create(AccessEntry(t))
             /\ everRevoked' = everRevoked \cup {t}
             /\ Set(s, [r EXCEPT !.pc = "la_find"])
  /\ UNCHANGED <<now, secretsEqual, users, issued, nlogins, loggedOut, accounts>>

\* logoutAll, lines 105-106: User.findById(req.user.id).
LogoutAllFindUser(s) ==
  /\ reqs[s].pc = "la_find"
  /\ LET r == reqs[s]
         u == users[r.user]
     IN Set(s, IF r.fault THEN ServerError(r, TRUE)
               ELSE IF ~u.exists THEN LogoutOk(r)
               ELSE [r EXCEPT !.doc = u.refreshTokens, !.docv = u.v, !.idx = 1,
                              !.pc = IF Len(u.refreshTokens) = 0 THEN "la_clear" ELSE "la_loop"])
  /\ UNCHANGED <<now, secretsEqual, users, issued, nlogins, blacklist,
                 everRevoked, loggedOut, accounts>>

LogoutAllLoop_abort(s) ==
  /\ reqs[s].pc = "la_loop"
  /\ LET r == reqs[s]
         t == r.doc[r.idx]
         ok == verifyRefreshToken(t) = "ok" /\ ~DuplicateKey(RefreshEntry(t))
     IN /\ blacklist' = IF ok THEN create(RefreshEntry(t)) ELSE blacklist
        /\ everRevoked' = IF ok THEN everRevoked \cup {t} ELSE everRevoked
        /\ Set(s, IF ~ok THEN ServerError(r, TRUE)
                  ELSE [r EXCEPT !.idx = r.idx + 1,
                                 !.pc = IF r.idx + 1 > Len(r.doc) THEN "la_clear" ELSE "la_loop"])
  /\ UNCHANGED <<now, secretsEqual, users, issued, nlogins, loggedOut, accounts>>

\* logoutAll, lines 108-122: one turn of the loop over user.refreshTokens.
LogoutAllLoop(s) ==
  /\ reqs[s].pc = "la_loop"
  /\ LET r == reqs[s]
         t == r.doc[r.idx]
         ok == verifyRefreshToken(t) = "ok" /\ ~DuplicateKey(RefreshEntry(t)) /\ ~r.fault
     IN /\ blacklist' = IF ok THEN create(RefreshEntry(t)) ELSE blacklist
        /\ everRevoked' = IF ok THEN everRevoked \cup {t} ELSE everRevoked
        /\ Set(s, [r EXCEPT !.idx = r.idx + 1,
                            !.pc = IF r.idx + 1 > Len(r.doc) THEN "la_clear" ELSE "la_loop"])
  /\ UNCHANGED <<now, secretsEqual, users, issued, nlogins, loggedOut, accounts>>

LogoutAllClear_keep(s) ==
  /\ reqs[s].pc = "la_clear"
  /\ LET r == reqs[s]
     IN /\ users' = [users EXCEPT ![r.user].refreshTokens = Filter(r.doc, r.cookie)]
        /\ Set(s, LogoutOk(r))
  /\ UNCHANGED <<now, secretsEqual, issued, nlogins, blacklist,
                 everRevoked, loggedOut, accounts>>

\* logoutAll, lines 125-138: user.removeAllRefreshTokens(), cookie, 200.
LogoutAllClear(s) ==
  /\ reqs[s].pc = "la_clear"
  /\ LET r == reqs[s]
     IN IF r.fault
        THEN /\ Set(s, ServerError(r, TRUE))
             /\ UNCHANGED users
        ELSE IF r.doc = << >>
        THEN /\ Set(s, LogoutOk(r))
             /\ UNCHANGED users
        ELSE IF VersionError(r.user, r.docv)
        THEN /\ Set(s, ServerError(r, TRUE))
             /\ UNCHANGED users
        ELSE /\ users' = Saved(r.user, << >>)
             /\ Set(s, LogoutOk(r))
  /\ UNCHANGED <<now, secretsEqual, issued, nlogins, blacklist,
                 everRevoked, loggedOut, accounts>>

(***************************** invalidateToken *****************************)
VerifyAs(kind, t) == IF kind = "access" THEN verifyAccessToken(t) ELSE verifyRefreshToken(t)

invalidateCheck_nodup(r) ==
  IF r.body = NoToken THEN Respond(r, 400, "MISSING_PARAMETERS", FALSE)
  ELSE IF r.btype \notin Kinds THEN Respond(r, 400, "INVALID_TOKEN_TYPE", FALSE)
  ELSE IF VerifyAs(r.btype, r.body) # "ok" THEN Respond(r, 400, "INVALID_TOKEN", FALSE)
  ELSE [r EXCEPT !.pc = "iv_create"]

invalidateCheck_noverify(r) ==
  IF r.body = NoToken THEN Respond(r, 400, "MISSING_PARAMETERS", FALSE)
  ELSE IF r.btype \notin Kinds THEN Respond(r, 400, "INVALID_TOKEN_TYPE", FALSE)
  ELSE IF findOne(r.body) # {} THEN Respond(r, 409, "TOKEN_ALREADY_BLACKLISTED", FALSE)
  ELSE [r EXCEPT !.pc = "iv_create"]

\* invalidateToken, lines 165-208: parameter checks, verification under the
\* secret of the supplied tokenType, and the findOne that detects a duplicate.
invalidateCheck(r) ==
  IF r.body = NoToken THEN Respond(r, 400, "MISSING_PARAMETERS", FALSE)
  ELSE IF r.btype \notin Kinds THEN Respond(r, 400, "INVALID_TOKEN_TYPE", FALSE)
  ELSE IF VerifyAs(r.btype, r.body) # "ok" THEN Respond(r, 400, "INVALID_TOKEN", FALSE)
  ELSE IF r.fault THEN ServerError(r, FALSE)
  ELSE IF findOne(r.body) # {} THEN Respond(r, 409, "TOKEN_ALREADY_BLACKLISTED", FALSE)
  ELSE [r EXCEPT !.pc = "iv_create"]

InvalidateCheck(s) ==
  /\ reqs[s].pc = "iv_check"
  /\ Set(s, invalidateCheck(reqs[s]))
  /\ UNCHANGED <<now, secretsEqual, users, issued, nlogins, blacklist,
                 everRevoked, loggedOut, accounts>>

\* invalidateToken, lines 211-216 (and 226-229 for an access token).
InvalidateCreate(s) ==
  /\ reqs[s].pc = "iv_create"
  /\ LET r == reqs[s]
         e == Entry(r.body, r.btype, r.body.userId, r.body.exp, "logout")
     IN IF DuplicateKey(e) \/ r.fault
        THEN /\ Set(s, ServerError(r, FALSE))
             /\ UNCHANGED <<blacklist, everRevoked>>
        ELSE /\ blacklist' = create(e)
             /\ everRevoked' = everRevoked \cup {r.body}
             /\ Set(s, IF r.btype = "refresh" THEN [r EXCEPT !.pc = "iv_find"]
                       ELSE Respond(r, 200, "none", FALSE))
  /\ UNCHANGED <<now, secretsEqual, users, issued, nlogins, loggedOut, accounts>>

\* invalidateToken, lines 219-221: User.findById(decoded.userId).
InvalidateFindUser(s) ==
  /\ reqs[s].pc = "iv_find"
  /\ LET r == reqs[s]
         u == users[r.body.userId]
     IN Set(s, IF r.fault THEN ServerError(r, FALSE)
               ELSE IF u.exists
                    THEN [r EXCEPT !.doc = u.refreshTokens, !.docv = u.v, !.pc = "iv_remove"]
               ELSE Respond(r, 200, "none", FALSE))
  /\ UNCHANGED <<now, secretsEqual, users, issued, nlogins, blacklist,
                 everRevoked, loggedOut, accounts>>

\* invalidateToken, lines 222-229: user.removeRefreshToken(token), 200.
InvalidateRemoveRefresh(s) ==
  /\ reqs[s].pc = "iv_remove"
  /\ LET r == reqs[s]
     IN IF r.fault
        THEN /\ Set(s, ServerError(r, FALSE))
             /\ UNCHANGED users
        ELSE IF Filter(r.doc, r.body) = r.doc
        THEN /\ Set(s, Respond(r, 200, "none", FALSE))
             /\ UNCHANGED users
        ELSE IF VersionError(r.body.userId, r.docv)
        THEN /\ Set(s, ServerError(r, FALSE))
             /\ UNCHANGED users
        ELSE /\ users' = Saved(r.body.userId, Filter(r.doc, r.body))
             /\ Set(s, Respond(r, 200, "none", FALSE))
  /\ UNCHANGED <<now, secretsEqual, issued, nlogins, blacklist,
                 everRevoked, loggedOut, accounts>>

(***************************** getSessions *********************************)
\* The 200 of getSessions: activeSessions and totalSessions.
SessionsOk(r, list) ==
  [Respond(r, 200, "none", FALSE) EXCEPT !.sessions = list, !.count = Len(list)]

\* The for...of loop moves to the next element of the array it began with,
\* or ends and the response is sent.
SessionsAdvance(r, list) ==
  IF r.idx + 1 > Len(r.doc) THEN SessionsOk(r, list)
  ELSE [r EXCEPT !.sessions = list, !.idx = r.idx + 1, !.pc = "gs_loop"]

\* getSessions, lines 288-296: User.findById(req.user.id).
SessionsFindUser(s) ==
  /\ reqs[s].pc = "gs_find"
  /\ LET r == reqs[s]
         u == users[r.user]
     IN Set(s, IF r.fault THEN ServerError(r, FALSE)
               ELSE IF ~u.exists THEN Respond(r, 404, "USER_NOT_FOUND", FALSE)
               ELSE IF Len(u.refreshTokens) = 0 THEN SessionsOk(r, << >>)
               ELSE [r EXCEPT !.doc = u.refreshTokens, !.mem = u.refreshTokens,
                              !.docv = u.v, !.idx = 1, !.pc = "gs_loop"])
  /\ UNCHANGED <<now, secretsEqual, users, issued, nlogins, blacklist,
                 everRevoked, loggedOut, accounts>>

SessionsLookup_noentry(s) ==
  /\ reqs[s].pc = "gs_loop"
  /\ LET r == reqs[s]
         t == r.doc[r.idx]
     IN Set(s, IF r.fault THEN ServerError(r, FALSE)
               ELSE IF verifyRefreshToken(t) = "ok"
                    THEN SessionsAdvance(r, Append(r.sessions, t))
               ELSE [r EXCEPT !.pc = "gs_remove"])
  /\ UNCHANGED <<now, secretsEqual, users, issued, nlogins, blacklist,
                 everRevoked, loggedOut, accounts>>

\* getSessions, lines 301-315: BlacklistedToken.findOne for one element of
\* the list, then verifyRefreshToken; a token that passes both is reported.
SessionsLookup(s) ==
  /\ reqs[s].pc = "gs_loop"
  /\ LET r == reqs[s]
         t == r.doc[r.idx]
     IN Set(s, IF r.fault THEN ServerError(r, FALSE)
               ELSE IF isBlacklisted(t) THEN SessionsAdvance(r, r.sessions)
               ELSE IF verifyRefreshToken(t) = "ok"
                    THEN SessionsAdvance(r, Append(r.sessions, t))
               ELSE [r EXCEPT !.pc = "gs_remove"])
  /\ UNCHANGED <<now, secretsEqual, users, issued, nlogins, blacklist,
                 everRevoked, loggedOut, accounts>>

\* getSessions, lines 316-319: user.removeRefreshToken for a token that has
\* no entry and fails verification.  The document in memory keeps what the
\* earlier removals of this request left (mem) and the version they reached;
\* a VersionError goes to the outer catch.
SessionsRemove(s) ==
  /\ reqs[s].pc = "gs_remove"
  /\ LET r == reqs[s]
         list == Filter(r.mem, r.doc[r.idx])
     IN IF r.fault
        THEN /\ Set(s, ServerError(r, FALSE))
             /\ UNCHANGED users
        ELSE IF list = r.mem
        THEN /\ Set(s, SessionsAdvance(r, r.sessions))
             /\ UNCHANGED users
        ELSE IF VersionError(r.user, r.docv)
        THEN /\ Set(s, ServerError(r, FALSE))
             /\ UNCHANGED users
        ELSE /\ users' = Saved(r.user, list)
             /\ Set(s, SessionsAdvance([r EXCEPT !.mem = list, !.docv = r.docv + 1],
                                        r.sessions))
  /\ UNCHANGED <<now, secretsEqual, issued, nlogins, blacklist,
                 everRevoked, loggedOut, accounts>>

SessionsSteps(s) == SessionsFindUser(s) \/ SessionsLookup(s) \/ SessionsRemove(s)

(***************************** checkToken, cleanupTokens, getProfile ********)
checkToken_bearer(r) == [Respond(r, 200, "none", FALSE) EXCEPT !.isBl = findOne(r.bearer) # {}]

checkToken_validated(r) ==
  IF r.body = Garbage THEN Respond(r, 400, "VALIDATION_ERROR", FALSE)
  ELSE [Respond(r, 200, "none", FALSE) EXCEPT !.isBl = findOne(r.body) # {}]

checkToken(r) ==
  IF r.fault THEN ServerError(r, FALSE)
  ELSE [Respond(r, 200, "none", FALSE) EXCEPT !.isBl = findOne(r.body) # {}]

CheckTokenFind(s) ==
  /\ reqs[s].pc = "ct_find"
  /\ Set(s, checkToken(reqs[s]))
  /\ UNCHANGED <<now, secretsEqual, users, issued, nlogins, blacklist,
                 everRevoked, loggedOut, accounts>>

CleanupDelete(s) ==
  /\ reqs[s].pc = "cl_delete"
  /\ IF reqs[s].fault
     THEN /\ Set(s, ServerError(reqs[s], FALSE))
          /\ UNCHANGED blacklist
     ELSE /\ blacklist' = deleteMany
          /\ Set(s, [Respond(reqs[s], 200, "none", FALSE)
                       EXCEPT !.count = Cardinality(blacklist \ deleteMany)])
  /\ UNCHANGED <<now, secretsEqual, users, issued, nlogins,
                 everRevoked, loggedOut, accounts>>

\* The hourly timer of the logout server: BlacklistedToken.cleanupExpired().
CleanupTimer ==
  /\ blacklist' = deleteMany
  /\ UNCHANGED <<now, secretsEqual, users, issued, nlogins, reqs,
                 everRevoked, loggedOut, accounts>>

\* A run of the timer in which cleanupExpired rejects: the callback's own
\* catch logs the error, the store is as it was and the interval stays armed.
CleanupTimerError ==
  UNCHANGED <<now, secretsEqual, users, issued, nlogins, blacklist, reqs,
              everRevoked, loggedOut, accounts>>

getProfile(r) ==
  IF ~users[r.user].exists THEN Respond(r, 404, "USER_NOT_FOUND", FALSE)
  ELSE Respond(r, 200, "none", FALSE)

MeFind(s) ==
  /\ reqs[s].pc = "me_find"
  /\ Set(s, getProfile(reqs[s]))
  /\ UNCHANGED <<now, secretsEqual, users, issued, nlogins, blacklist,
                 everRevoked, loggedOut, accounts>>

(***************************** refreshToken ********************************)
\* The catch block of refreshToken.
RefreshCatch(r, msg) ==
  IF Includes(msg, "expired") THEN Respond(r, 401, "REFRESH_TOKEN_EXPIRED", FALSE)
  ELSE IF Includes(msg, "invalid") \/ Includes(msg, "malformed")
       THEN Respond(r, 401, "INVALID_REFRESH_TOKEN", FALSE)
  ELSE Respond(r, 500, "SERVER_ERROR", FALSE)

\* refreshToken, lines 485-506: the cookie, verifyRefreshToken, the type.
refreshVerify(r) ==
  IF r.cookie = NoToken THEN Respond(r, 401, "MISSING_REFRESH_TOKEN", FALSE)
  ELSE IF verifyRefreshToken(r.cookie) # "ok" THEN RefreshCatch(r, verifyRefreshToken(r.cookie))
  ELSE IF r.cookie.type # "refresh" THEN Respond(r, 401, "INVALID_TOKEN_TYPE", FALSE)
  ELSE [r EXCEPT !.pc = "rf_find"]

RefreshVerify(s) ==
  /\ reqs[s].pc = "rf_verify"
  /\ Set(s, refreshVerify(reqs[s]))
  /\ UNCHANGED <<now, secretsEqual, users, issued, nlogins, blacklist,
                 everRevoked, loggedOut, accounts>>

RefreshFindUser_nolist(s) ==
  /\ reqs[s].pc = "rf_find"
  /\ LET r == reqs[s]
         c == r.cookie
         u == users[c.userId]
     IN IF ~u.exists \/ ~u.isActive
        THEN /\ Set(s, Respond(r, 401, "USER_NOT_FOUND", FALSE))
             /\ UNCHANGED issued
        ELSE /\ issued' = issued \cup {generateAccessToken(c.userId, 0)}
             /\ Set(s, Respond(r, 200, "none", FALSE))
  /\ UNCHANGED <<now, secretsEqual, users, nlogins, blacklist,
                 everRevoked, loggedOut, accounts>>

\* refreshToken, lines 509-543: User.findById, the user's own list of
\* refresh tokens, generateAccessToken, 200.  The access token carries no
\* identifier of its own: two of them made for one user in the same second
\* are the same string.
RefreshFindUser(s) ==
  /\ reqs[s].pc = "rf_find"
  /\ LET r == reqs[s]
         c == r.cookie
         u == users[c.userId]
     IN IF ~u.exists \/ ~u.isActive
        THEN /\ Set(s, Respond(r, 401, "USER_NOT_FOUND", FALSE))
             /\ UNCHANGED issued
        ELSE IF ~\E i \in 1..Len(u.refreshTokens) : u.refreshTokens[i] = c
        THEN /\ Set(s, Respond(r, 401, "INVALID_REFRESH_TOKEN", FALSE))
             /\ UNCHANGED issued
        ELSE /\ issued' = issued \cup {generateAccessToken(c.userId, 0)}
             /\ Set(s, Respond(r, 200, "none", FALSE))
  /\ UNCHANGED <<now, secretsEqual, users, nlogins, blacklist,
                 everRevoked, loggedOut, accounts>>

(***************************** register ************************************)
\* accounts is the users collection as register sees it: the documents it
\* has created, under the unique index on email.
Emails == {"a@x.io", "A@x.io", "b@x.io"}

toLowerCase(e) == IF e = "A@x.io" THEN "a@x.io" ELSE e

\* What the body's password is to the two checks: "invalid" fails the
\* route's registerValidation, "weak" passes it and fails
\* validatePasswordStrength, "strong" passes both.
Passwords == {"invalid", "weak", "strong"}

\* A fresh ObjectId: no two documents get the same one.
IdNames == <<"n1", "n2", "n3", "n4", "n5", "n6", "n7", "n8">>

NewId(s) == IdNames[2 * Cardinality(accounts) + s]

findByEmail(e) == {a \in accounts : a.email = toLowerCase(e)}

\* The unique index on email: E11000 on a second document with the email.
DuplicateEmail_none(e) == FALSE

DuplicateEmail(e) == \E a \in accounts : a.email = e

PostRegister(s) ==
  \E e \in Emails, p \in Passwords :
     /\ reqs[s].pc = "idle"
     /\ Cardinality(accounts) < 3
     /\ Set(s, [Idle EXCEPT !.op = "register", !.pc = "rg_find", !.email = e, !.pw = p])
     /\ UNCHANGED <<now, secretsEqual, users, issued, nlogins, blacklist,
                    everRevoked, loggedOut, accounts>>

\* register, lines 243-264: validationResult, User.findByEmail.
registerFind(r) ==
  IF r.pw = "invalid" THEN Respond(r, 400, "VALIDATION_ERROR", FALSE)
  ELSE IF findByEmail(r.email) # {} THEN Respond(r, 409, "USER_EXISTS", FALSE)
  ELSE [r EXCEPT !.pc = "rg_save"]

RegisterFind(s) ==
  /\ reqs[s].pc = "rg_find"
  /\ Set(s, registerFind(reqs[s]))
  /\ UNCHANGED <<now, secretsEqual, users, issued, nlogins, blacklist,
                 everRevoked, loggedOut, accounts>>

\* register, lines 267-283 and the catch block at 337-343: the password
\* check, new User({email: email.toLowerCase(), password}), user.save().
RegisterSave(s) ==
  /\ reqs[s].pc = "rg_save"
  /\ LET r == reqs[s]
         e == toLowerCase(r.email)
     IN IF r.pw = "weak"
        THEN /\ Set(s, Respond(r, 400, "WEAK_PASSWORD", FALSE))
             /\ UNCHANGED accounts
        ELSE IF DuplicateEmail(e)
        THEN /\ Set(s, Respond(r, 409, "USER_EXISTS", FALSE))
             /\ UNCHANGED accounts
        ELSE /\ accounts' = accounts \cup
                              {[id |-> NewId(s), email |-> e, refreshTokens |-> << >>]}
             /\ Set(s, [r EXCEPT !.user = NewId(s), !.pc = "rg_add"])
  /\ UNCHANGED <<now, secretsEqual, users, issued, nlogins, blacklist,
                 everRevoked, loggedOut>>

\* register, lines 286-316: generateTokens, user.addRefreshToken, the
\* cookie, 201.
RegisterAddToken(s) ==
  /\ reqs[s].pc = "rg_add"
  /\ LET r == reqs[s]
         a == generateAccessToken(r.user, 0)
         t == generateRefreshToken(r.user, 0)
     IN /\ issued' = issued \cup {a, t}
        /\ accounts' = {IF x.id = r.user
                         THEN [x EXCEPT !.refreshTokens = Append(@, t)] ELSE x :
                         x \in accounts}
        /\ Set(s, Respond(r, 201, "none", FALSE))
  /\ UNCHANGED <<now, secretsEqual, users, nlogins, blacklist,
                 everRevoked, loggedOut>>

(***************************** blacklistToken ******************************)
\* BlacklistedToken.blacklistToken, lines 57-79: this.create(...).
BlacklistTokenCreate(s) ==
  /\ reqs[s].pc = "bt_create"
  /\ LET r == reqs[s]
         e == Entry(r.body, r.btype, r.body.userId, r.body.exp, r.why)
     IN IF DuplicateKey(e)
        THEN /\ Set(s, [r EXCEPT !.pc = "bt_find"])
             /\ UNCHANGED blacklist
        ELSE /\ blacklist' = create(e)
             /\ Set(s, [Respond(r, 0, "none", FALSE) EXCEPT !.ent = {e}])
  /\ everRevoked' = IF isBlacklisted(reqs[s].body)
                     THEN everRevoked ELSE everRevoked \cup {reqs[s].body}
  /\ UNCHANGED <<now, secretsEqual, users, issued, nlogins, loggedOut, accounts>>

BlacklistTokenFind_fresh(s) ==
  /\ reqs[s].pc = "bt_find"
  /\ LET r == reqs[s]
     IN Set(s, [Respond(r, 0, "none", FALSE) EXCEPT
                  !.ent = {Entry(r.body, r.btype, r.body.userId, r.body.exp, r.why)}])
  /\ UNCHANGED <<now, secretsEqual, users, issued, nlogins, blacklist,
                 everRevoked, loggedOut, accounts>>

\* blacklistToken, lines 80-84: on E11000, return this.findOne({ token }).
BlacklistTokenFind(s) ==
  /\ reqs[s].pc = "bt_find"
  /\ Set(s, [Respond(reqs[s], 0, "none", FALSE) EXCEPT !.ent = findOne(reqs[s].body)])
  /\ UNCHANGED <<now, secretsEqual, users, issued, nlogins, blacklist,
                 everRevoked, loggedOut, accounts>>

(***************************** the demo servers ****************************)
\* POST /api/auth/login of the demo login server.
SimpleLogin(u, cap) ==
  /\ nlogins < cap
  /\ users[u].exists /\ users[u].isActive
  /\ issued' = issued \cup {[simpleSign(u) EXCEPT !.id = nlogins + 1]}
  /\ nlogins' = nlogins + 1
  /\ UNCHANGED <<now, secretsEqual, users, blacklist, reqs, everRevoked, loggedOut, accounts>>

PostSimpleLogout(s) ==
  \E b \in Bearers : Receive(s, "simpleLogout", b, NoToken, NoToken, "none", "none")

PostSimpleLogoutAll(s) ==
  \E b \in Bearers : Receive(s, "simpleLogoutAll", b, NoToken, NoToken, "none", "none")

PostSimpleInvalidateToken(s) ==
  \E t \in Bearers : Receive(s, "simpleInvalidate", NoToken, NoToken, t, "none", "none")

GetSimpleMe(s) ==
  \E b \in Bearers : Receive(s, "simpleMe", b, NoToken, NoToken, "none", "none")

\* validateToken of the demo logout server: lookup first, jwt.verify second.
validateToken(r) ==
  IF r.bearer = NoToken THEN Respond(r, 401, "No token provided", FALSE)
  ELSE IF findOne(r.bearer) # {}
       THEN Respond([r EXCEPT !.looked = TRUE], 401, "Token has been invalidated", FALSE)
  ELSE IF JwtVerify(r.bearer, "access") # "ok"
       THEN Respond([r EXCEPT !.looked = TRUE], 401, "Invalid token", FALSE)
  ELSE [r EXCEPT !.user = r.bearer.userId, !.pc = "s_save", !.looked = TRUE]

SimpleValidateToken(s) ==
  /\ reqs[s].pc = "sv"
  /\ Set(s, validateToken(reqs[s]))
  /\ UNCHANGED <<now, secretsEqual, users, issued, nlogins, blacklist,
                 everRevoked, loggedOut, accounts>>

\* POST /api/logout of the demo logout server: the entry expires one day
\* after the logout.
SimpleLogoutSave_short(s) ==
  /\ reqs[s].pc = "s_save"
  /\ reqs[s].op = "simpleLogout"
  /\ LET r == reqs[s]
         e == Entry(r.bearer, "access", r.user, now + DayLen - 1, "logout")
     IN IF DuplicateKey(e)
        THEN /\ Set(s, Respond(r, 500, "Internal server error", FALSE))
             /\ UNCHANGED <<blacklist, everRevoked, loggedOut>>
        ELSE /\ blacklist' = create(e)
             /\ everRevoked' = everRevoked \cup {r.bearer}
             /\ loggedOut' = loggedOut \cup {r.bearer}
             /\ Set(s, Respond(r, 200, "none", FALSE))
  /\ UNCHANGED <<now, secretsEqual, users, issued, nlogins, accounts>>

SimpleLogoutSave(s) ==
  /\ reqs[s].pc = "s_save"
  /\ reqs[s].op = "simpleLogout"
  /\ LET r == reqs[s]
         e == Entry(r.bearer, "access", r.user, now + DayLen, "logout")
     IN IF DuplicateKey(e)
        THEN /\ Set(s, Respond(r, 500, "Internal server error", FALSE))
             /\ UNCHANGED <<blacklist, everRevoked, loggedOut>>
        ELSE /\ blacklist' = create(e)
             /\ everRevoked' = everRevoked \cup {r.bearer}
             /\ loggedOut' = loggedOut \cup {r.bearer}
             /\ Set(s, Respond(r, 200, "none", FALSE))
  /\ UNCHANGED <<now, secretsEqual, users, issued, nlogins, accounts>>

\* POST /api/logout-all of the demo logout server: only the presented token
\* is revoked, with reason logout-all.
SimpleLogoutAllSave(s) ==
  /\ reqs[s].pc = "s_save"
  /\ reqs[s].op = "simpleLogoutAll"
  /\ LET r == reqs[s]
         e == Entry(r.bearer, "access", r.user, now + DayLen, "logout-all")
     IN IF DuplicateKey(e)
        THEN /\ Set(s, Respond(r, 500, "Internal server error", FALSE))
             /\ UNCHANGED <<blacklist, everRevoked>>
        ELSE /\ blacklist' = create(e)
             /\ everRevoked' = everRevoked \cup {r.bearer}
             /\ Set(s, Respond(r, 200, "none", FALSE))
  /\ UNCHANGED <<now, secretsEqual, users, issued, nlogins, loggedOut, accounts>>

\* POST /api/invalidate-token of the demo logout server: no gate; the body
\* token is verified and an entry is saved, a throw of either gives 500.
SimpleInvalidateToken(s) ==
  /\ reqs[s].pc = "si"
  /\ LET r == reqs[s]
         e == Entry(r.body, "access", r.body.userId, now + DayLen, "manual")
     IN IF r.body = NoToken
        THEN /\ Set(s, Respond(r, 400, "Token required", FALSE))
             /\ UNCHANGED <<blacklist, everRevoked>>
        ELSE IF JwtVerify(r.body, "access") # "ok" \/ DuplicateKey(e)
        THEN /\ Set(s, Respond(r, 500, "Failed to invalidate token", FALSE))
             /\ UNCHANGED <<blacklist, everRevoked>>
        ELSE /\ blacklist' = create(e)
             /\ everRevoked' = everRevoked \cup {r.body}
             /\ Set(s, Respond(r, 200, "none", FALSE))
  /\ UNCHANGED <<now, secretsEqual, users, issued, nlogins, loggedOut, accounts>>

\* GET /api/auth/me of the demo login server.
simpleMe(r) ==
  IF r.bearer = NoToken THEN Respond(r, 401, "No token provided", FALSE)
  ELSE IF JwtVerify(r.bearer, "access") # "ok" THEN Respond(r, 401, "Invalid token", FALSE)
  ELSE IF ~users[r.bearer.userId].exists THEN Respond(r, 404, "User not found", FALSE)
  ELSE Respond(r, 200, "none", FALSE)

SimpleMe(s) ==
  /\ reqs[s].pc = "sme"
  /\ Set(s, simpleMe(reqs[s]))
  /\ UNCHANGED <<now, secretsEqual, users, issued, nlogins, blacklist,
                 everRevoked, loggedOut, accounts>>

(***************************** specification *******************************)
\* The response leaves and the slot is free for the next request.
Deliver(s) ==
  /\ reqs[s].pc = "done"
  /\ Set(s, Idle)
  /\ UNCHANGED <<now, secretsEqual, users, issued, nlogins, blacklist,
                 everRevoked, loggedOut, accounts>>

\* A response is delivered before anything else happens.
NoResponse == \A s \in AllSlots : reqs[s].pc # "done"

GateSteps(s) ==
  \/ AuthCheck(s)
  \/ AuthUser(s)

LogoutSteps(s) ==
  \/ OptCheck(s)
  \/ OptUser(s)
  \/ LogoutAccess(s)
  \/ LogoutFindUser(s)
  \/ LogoutRemoveRefresh(s)
  \/ LogoutRefresh(s)

LogoutAllSteps(s) ==
  \/ LogoutAllAccess(s)
  \/ LogoutAllFindUser(s)
  \/ LogoutAllLoop(s)
  \/ LogoutAllClear(s)

InvalidateSteps(s) ==
  \/ InvalidateCheck(s)
  \/ InvalidateCreate(s)
  \/ InvalidateFindUser(s)
  \/ InvalidateRemoveRefresh(s)

RegisterSteps(s) ==
  \/ RegisterFind(s)
  \/ RegisterSave(s)
  \/ RegisterAddToken(s)

RefreshSteps(s) ==
  \/ RefreshVerify(s)
  \/ RefreshFindUser(s)

BlacklistTokenSteps(s) ==
  \/ BlacklistTokenCreate(s)
  \/ BlacklistTokenFind(s)

Environment ==
  \/ Tick
  \/ TTLExpire
  \/ CleanupTimer

\* The logout service and the /auth/me route, one request at a time, one
\* login.
Next ==
  \/ /\ NoResponse
     /\ \/ Environment
        \/ \E u \in Users : Login(u, 1)
        \/ PostLogout(1, Bearers, Cookies) \/ PostLogoutAll(1, Bearers)
        \/ PostInvalidateToken(1, Bearers, Bodies)
        \/ GetCheckToken(1) \/ PostCleanupTokens(1) \/ GetMe(1)
        \/ GateSteps(1)
        \/ LogoutSteps(1) \/ LogoutAllSteps(1) \/ InvalidateSteps(1)
        \/ CheckTokenFind(1) \/ CleanupDelete(1) \/ MeFind(1)
  \/ Deliver(1)

Spec == Init /\ [][Next]_vars

\* The /invalidate-token route alone, with two sessions of the same user.
InvalidateNext ==
  \/ /\ NoResponse
     /\ \/ Tick
        \/ TTLExpire
        \/ \E u \in Users : Login(u, 2)
        \/ PostInvalidateToken(1, Sessions, {<<t, t.type>> : t \in issued})
        \/ GateSteps(1) \/ InvalidateSteps(1)
  \/ Deliver(1)

InvalidateSpec == Init /\ [][InvalidateNext]_vars

\* The /logout-all route alone, with two sessions of the same user.
LogoutAllNext ==
  \/ /\ NoResponse
     /\ \/ Tick
        \/ TTLExpire
        \/ \E u \in Users : Login(u, 2)
        \/ PostLogoutAll(1, Sessions)
        \/ GateSteps(1) \/ LogoutAllSteps(1)
  \/ Deliver(1)

LogoutAllSpec == Init /\ [][LogoutAllNext]_vars

\* The store's own insert, one call at a time.
StoreNext ==
  \/ /\ NoResponse
     /\ \/ Environment
        \/ \E u \in Users : Login(u, 1)
        \/ CallBlacklistToken(1)
        \/ BlacklistTokenSteps(1)
  \/ Deliver(1)

StoreSpec == Init /\ [][StoreNext]_vars

\* The writers of the store, two requests in flight at once (two instances,
\* or two requests in one event loop).
ConcNext ==
  \/ /\ NoResponse
     /\ \/ \E u \in Users : Login(u, 1)
        \/ \E s \in AllSlots :
             \/ PostLogout(s, Sessions, Sessions \cup {NoToken})
             \/ PostLogoutAll(s, Sessions)
             \/ PostInvalidateToken(s, Sessions, {<<t, t.type>> : t \in issued})
             \/ CallBlacklistToken(s)
             \/ GateSteps(s)
             \/ LogoutSteps(s) \/ LogoutAllSteps(s)
             \/ InvalidateSteps(s) \/ BlacklistTokenSteps(s)
  \/ \E s \in AllSlots : Deliver(s)

ConcSpec == Init /\ [][ConcNext]_vars

\* The gate in front of /auth/me, with accounts that are disabled or removed
\* and /invalidate-token as the source of entries.
GateNext ==
  \/ /\ NoResponse
     /\ \/ Tick
        \/ TTLExpire
        \/ \E u \in Users : Login(u, 1)
        \/ \E u \in Users : DeactivateUser(u)
        \/ \E u \in Users : RemoveUser(u)
        \/ GetMe(1)
        \/ PostInvalidateToken(1, Sessions, {<<t, t.type>> : t \in issued})
        \/ GateSteps(1) \/ InvalidateSteps(1) \/ MeFind(1)
  \/ Deliver(1)

GateSpec == Init /\ [][GateNext]_vars

\* POST /auth/refresh and the gate in front of /auth/me, offered every token
\* that was issued, of either kind; /invalidate-token takes refresh tokens
\* off the user's list.
RefreshNext ==
  \/ /\ NoResponse
     /\ \/ Tick
        \/ \E u \in Users : Login(u, 1)
        \/ \E u \in Users : DeactivateUser(u)
        \/ PostRefresh(1, issued \cup {NoToken, Garbage})
        \/ GetMe(1)
        \/ PostInvalidateToken(1, Sessions, {<<t, t.type>> : t \in issued})
        \/ GateSteps(1) \/ MeFind(1) \/ RefreshSteps(1) \/ InvalidateSteps(1)
  \/ Deliver(1)

RefreshSpec == Init /\ [][RefreshNext]_vars

\* POST /auth/refresh in one slot while /logout-all or /invalidate-token is
\* in flight in the other.
RaceNext ==
  \/ /\ NoResponse
     /\ \/ \E u \in Users : Login(u, 1)
        \/ PostLogoutAll(1, Sessions)
        \/ PostInvalidateToken(1, Sessions, {<<t, t.type>> : t \in issued})
        \/ PostRefresh(2, {t \in issued : t.type = "refresh"})
        \/ GateSteps(1) \/ LogoutAllSteps(1) \/ InvalidateSteps(1)
        \/ RefreshSteps(2)
  \/ \E s \in AllSlots : Deliver(s)

RaceSpec == Init /\ [][RaceNext]_vars

\* getSessions in one slot while invalidate-token runs in the other.
SessionsNext ==
  \/ /\ NoResponse
     /\ \/ Tick
        \/ \E u \in Users : Login(u, 2)
        \/ GetSessions(1, Sessions)
        \/ PostInvalidateToken(2, {t \in issued : t.type = "access"},
                                {<<t, "refresh">> : t \in {x \in issued : x.type = "refresh"}})
        \/ GateSteps(1) \/ SessionsSteps(1)
        \/ GateSteps(2) \/ InvalidateSteps(2)
  \/ \E s \in AllSlots : Deliver(s)

SessionsSpec == Init /\ [][SessionsNext]_vars

InFlight(s) == reqs[s].pc \notin {"idle", "done"}

\* One logout-all request, whose response stays in slot 1.  Slot 2 takes the
\* requests that save the same user's record while the logout-all is under
\* way, and token refreshes once it has answered.
ClearNext ==
  \/ /\ reqs[2].pc # "done"
     /\ \/ \E u \in Users : Login(u, 2)
        \/ Tick
        \/ PostLogoutAll(1, AccessTokens)
        \/ GateSteps(1) \/ LogoutAllSteps(1)
        \/ /\ InFlight(1)
           /\ \/ PostLogout(2, AccessTokens, RefreshTokens)
              \/ GetSessions(2, AccessTokens)
              \/ PostInvalidateToken(2, AccessTokens,
                                      {<<t, "refresh">> : t \in RefreshTokens})
        \/ reqs[1].pc = "done" /\ PostRefresh(2, RefreshTokens)
        \/ GateSteps(2) \/ LogoutSteps(2) \/ SessionsSteps(2) \/ InvalidateSteps(2)
        \/ RefreshSteps(2)
  \/ Deliver(2)

\* The two secrets differ, as the configuration intends.
ClearInit == Init /\ ~secretsEqual

ClearSpec == ClearInit /\ [][ClearNext]_vars

\* The logout service with a database that can fail under a request.
FaultNext ==
  \/ /\ NoResponse
     /\ \/ \E u \in Users : Login(u, 1)
        \/ PostLogout(1, Sessions \cup {NoToken}, Cookies) \/ PostLogoutAll(1, Sessions)
        \/ PostInvalidateToken(1, Sessions, {<<t, t.type>> : t \in issued})
        \/ GetCheckToken(1) \/ PostCleanupTokens(1)
        \/ InjectFault(1)
        \/ GateSteps(1)
        \/ LogoutSteps(1) \/ LogoutAllSteps(1) \/ InvalidateSteps(1)
        \/ CheckTokenFind(1) \/ CleanupDelete(1)
  \/ Deliver(1)

FaultSpec == Init /\ [][FaultNext]_vars

\* POST /auth/register, two requests in flight at once.
RegisterNext ==
  \/ /\ NoResponse
     /\ \E s \in AllSlots : PostRegister(s) \/ RegisterSteps(s)
  \/ \E s \in AllSlots : Deliver(s)

RegisterSpec == Init /\ [][RegisterNext]_vars

\* Cleanup (the route, the timer, the TTL index) and lookups (check-token,
\* the gate) in one slot while /invalidate-token inserts in the other.
CleanupNext ==
  \/ /\ NoResponse
     /\ \/ Environment
        \/ \E u \in Users : Login(u, 1)
        \/ PostInvalidateToken(1, Sessions, {<<t, t.type>> : t \in issued})
        \/ GateSteps(1) \/ InvalidateSteps(1)
        \/ PostCleanupTokens(2) \/ GetCheckToken(2)
        \/ CleanupDelete(2) \/ CheckTokenFind(2)
  \/ \E s \in AllSlots : Deliver(s)

CleanupSpec == Init /\ [][CleanupNext]_vars

\* The running logout server: /invalidate-token writes entries, the clock
\* advances and the hourly timer is the only thing that removes.  setInterval
\* keeps firing for as long as the process lives, and a run that throws is
\* caught inside the callback, so the timer's successful run is weakly fair.
LiveNext ==
  \/ /\ NoResponse
     /\ \/ Tick
        \/ \E u \in Users : Login(u, 1)
        \/ PostInvalidateToken(1, Sessions, {<<t, t.type>> : t \in issued})
        \/ GateSteps(1) \/ InvalidateSteps(1)
  \/ CleanupTimer
  \/ CleanupTimerError
  \/ Deliver(1)

LiveSpec == Init /\ [][LiveNext]_vars /\ WF_vars(CleanupTimer)

\* The demo login and logout servers.
SimpleNext ==
  \/ /\ NoResponse
     /\ \/ Tick
        \/ TTLExpire
        \/ \E u \in Users : SimpleLogin(u, 2)
        \/ PostSimpleLogout(1) \/ GetSimpleMe(1)
        \/ SimpleValidateToken(1) \/ SimpleLogoutSave(1) \/ SimpleMe(1)
  \/ Deliver(1)

SimpleSpec == Init /\ [][SimpleNext]_vars

\* The three revoking routes of the demo logout server.
SimpleRevokeNext ==
  \/ /\ NoResponse
     /\ \/ Tick
        \/ TTLExpire
        \/ \E u \in Users : SimpleLogin(u, 2)
        \/ PostSimpleLogout(1) \/ PostSimpleLogoutAll(1)
        \/ PostSimpleInvalidateToken(1)
        \/ SimpleValidateToken(1) \/ SimpleLogoutSave(1)
        \/ SimpleLogoutAllSave(1) \/ SimpleInvalidateToken(1)
  \/ Deliver(1)

SimpleRevokeSpec == Init /\ [][SimpleRevokeNext]_vars

(***************************** properties **********************************)
GatedOps == {"logoutAll", "invalidate", "me"}

\* The response came from authenticateToken, not from a handler behind it.
GateRejected(r) == r.pc = "done" /\ (r.status = 401 \/ r.error = "AUTH_FAILED")

\* C1: authenticateToken never admits a token that was ever revoked, and the
\* entry of a token leaves the store only when the token itself is expired.
C1_RevokedNeverAdmitted ==
  [][/\ \A e \in blacklist : e \notin blacklist' => now >= e.token.exp
     /\ \A s \in AllSlots :
          (reqs[s].pc = "gate" /\ reqs'[s].pc # "gate"
             /\ reqs[s].bearer \in everRevoked)
            => GateRejected(reqs'[s])]_vars

C1_Witness ==
  \E s \in AllSlots :
     /\ reqs[s].op = "me" /\ reqs[s].pc = "done" /\ reqs[s].rev
     /\ reqs[s].error = "TOKEN_BLACKLISTED"

\* C2: after a logout of token T answered 200, GET /check-token/T reports
\* isBlacklisted = true for as long as T is unexpired, and the entry is in
\* the store all that time.
C2_CheckTokenAfterLogout ==
  /\ \A t \in loggedOut : now < t.exp => isBlacklisted(t)
  /\ \A s \in AllSlots :
       (reqs[s].op = "check" /\ reqs[s].pc = "done"
          /\ reqs[s].subj \in loggedOut /\ now < reqs[s].subj.exp)
         => (reqs[s].status = 200 /\ reqs[s].isBl)

C2_Witness ==
  \E s \in AllSlots :
     /\ reqs[s].op = "check" /\ reqs[s].pc = "done"
     /\ reqs[s].subj \in loggedOut /\ now < reqs[s].subj.exp
     /\ reqs[s].isBl

\* C3 as stated: GET /api/auth/me of the login server never answers 200 to
\* a token whose logout was answered 200; it rejects with 401 or 403.
C3_MeAfterLogoutRejected ==
  \A s \in AllSlots :
     (reqs[s].op = "simpleMe" /\ reqs[s].pc = "done" /\ reqs[s].subj \in loggedOut)
       => reqs[s].status \in {401, 403}

C5_OneEntryPerToken ==
  \A t \in issued \cup {Garbage, NoToken} : Cardinality(findOne(t)) <= 1

\* Two requests about the same token: one has inserted its entry and been
\* answered, the other is about to insert.
C5_Witness ==
  \E s1, s2 \in AllSlots :
     /\ s1 # s2
     /\ reqs[s1].pc = "done" /\ reqs[s1].status = 200 /\ reqs[s1].op = "invalidate"
     /\ reqs[s2].pc \in {"lo_access", "iv_create", "bt_create"}
     /\ Subject(reqs[s2].op, reqs[s2].bearer, reqs[s2].body) = reqs[s1].subj
     /\ isBlacklisted(reqs[s1].subj)

\* C6: blacklistToken called for a token whose entry is in the store (and
\* still unexpired when the call returns) returns that entry, field for
\* field, and the store holds that entry alone for the token.
C6_BlacklistTokenIdempotent ==
  \A s \in AllSlots :
     (reqs[s].op = "blacklistToken" /\ reqs[s].pc = "done" /\ Pre(reqs[s])
        /\ \A e \in reqs[s].orig : now < e.expiresAt)
       => (reqs[s].ent = reqs[s].orig /\ findOne(reqs[s].subj) = reqs[s].orig)

C6_Witness ==
  \E s \in AllSlots :
     /\ reqs[s].op = "blacklistToken" /\ reqs[s].pc = "done" /\ Pre(reqs[s])
     /\ reqs[s].ent = reqs[s].orig
     /\ \E e \in reqs[s].ent : e.blacklistedAt < now /\ now < e.expiresAt

\* C7 as stated: POST /logout with an access token that already has an
\* entry answers 200 and leaves the original entry alone in the store.
C7_LogoutIdempotent ==
  \A s \in AllSlots :
     (reqs[s].op = "logout" /\ reqs[s].pc = "done" /\ Pre(reqs[s])
        /\ reqs[s].subj.type = "access" /\ reqs[s].subj.sig = "access")
       => (reqs[s].status = 200 /\ findOne(reqs[s].subj) = reqs[s].orig)

ValidAccess(t) == t \in issued /\ t.type = "access" /\ t.sig = "access" /\ now < t.exp

\* The request in slot s is a POST /invalidate-token {token: A1, tokenType:
\* access} by a caller holding a valid access token, answered in this step.
InvalidateAnswered(s) ==
  /\ reqs[s].op = "invalidate" /\ reqs[s].pc # "done" /\ reqs'[s].pc = "done"
  /\ reqs[s].btype = "access"
  /\ ValidAccess(reqs[s].bearer) /\ ValidAccess(reqs[s].body)

\* C8 as stated: the second call, whether its bearer is A1 itself or another
\* token of the caller, answers 409 and leaves the store unchanged.
C8_SecondInvalidateConflict ==
  [][\A s \in AllSlots :
       (InvalidateAnswered(s) /\ Pre(reqs[s])
          /\ (reqs[s].bearer = reqs[s].body \/ ~isBlacklisted(reqs[s].bearer)))
         => (reqs'[s].status = 409 /\ blacklist' = blacklist)]_vars

\* C8 amended: the first call answers 200 and creates the entry; the second
\* answers 409 TOKEN_ALREADY_BLACKLISTED when its bearer is a token the gate
\* still admits, 401 TOKEN_BLACKLISTED when its bearer is A1 itself; either
\* way the store is unchanged.
C8_SecondInvalidateConflictOrGate ==
  [][\A s \in AllSlots :
       /\ (InvalidateAnswered(s) /\ Pre(reqs[s]) /\ ~isBlacklisted(reqs[s].bearer))
            => /\ reqs'[s].status = 409
               /\ reqs'[s].error = "TOKEN_ALREADY_BLACKLISTED"
               /\ blacklist' = blacklist
       /\ (InvalidateAnswered(s) /\ Pre(reqs[s]) /\ reqs[s].bearer = reqs[s].body)
            => /\ reqs'[s].status = 401
               /\ reqs'[s].error = "TOKEN_BLACKLISTED"
               /\ blacklist' = blacklist
       /\ (InvalidateAnswered(s) /\ ~Pre(reqs[s]) /\ reqs[s].pc = "iv_create")
            => /\ reqs'[s].status = 200
               /\ \E e \in blacklist' : e.token = reqs[s].body
               /\ reqs[s].body \in everRevoked']_vars

C8_Witness ==
  \E s \in AllSlots :
     /\ reqs[s].op = "invalidate" /\ reqs[s].pc = "done" /\ Pre(reqs[s])
     /\ reqs[s].status = 409
     /\ ValidAccess(reqs[s].subj)

C10_LogoutNeverFails ==
  [][\A s \in AllSlots :
       (reqs[s].op = "logout" /\ reqs[s].pc # "done" /\ reqs'[s].pc = "done"
          /\ reqs[s].bearer \in {NoToken, Garbage} /\ reqs[s].cookie = NoToken)
         => (reqs'[s].status = 200 /\ reqs'[s].cleared)]_vars

\* C11 as stated: every response to POST /logout and POST /logout-all clears
\* the refreshToken cookie.
C11_CookieAlwaysCleared ==
  \A s \in AllSlots :
     (reqs[s].op \in {"logout", "logoutAll"} /\ reqs[s].pc = "done")
       => reqs[s].cleared

\* C11 amended: every response of the logout and logoutAll handlers, 200 or
\* 500, clears the refreshToken cookie, so every response to POST /logout
\* does; a POST /logout-all that authenticateToken rejects is answered
\* before the handler runs and does not clear it.
C11_HandlersAlwaysClearCookie ==
  \A s \in AllSlots :
     /\ (reqs[s].op = "logout" /\ reqs[s].pc = "done") => reqs[s].cleared
     /\ (reqs[s].op = "logoutAll" /\ reqs[s].pc = "done")
          => (reqs[s].cleared <=> ~GateRejected(reqs[s]))

\* logoutAll answered from its catch block.
C11_Witness ==
  \E s \in AllSlots :
     /\ reqs[s].op = "logoutAll" /\ reqs[s].pc = "done"
     /\ reqs[s].status = 500 /\ reqs[s].error = "SERVER_ERROR"
     /\ reqs[s].cleared

\* C12 as stated: logout with a well-formed access token that is already
\* expired leaves an entry with reason logout for that token.
C12_ExpiredTokenStillRevoked ==
  [][\A s \in AllSlots :
       LET r == reqs[s]
           t == reqs[s].bearer
       IN (r.op = "logout" /\ r.pc = "lo_access" /\ reqs'[s].pc # "lo_access"
             /\ t.sig = "access" /\ t.type = "access" /\ now >= t.exp)
            => \E e \in blacklist' : e.token = t /\ e.reason = "logout"]_vars

\* The refresh tokens on the stored list of user u in the collection us.
Stored(us, u) == {us[u].refreshTokens[i] : i \in 1..Len(us[u].refreshTokens)}

\* C13 as stated: when logout answers a request whose refresh cookie passes
\* verification, the cookie's token has an entry of kind refresh and is off
\* its owner's list, with or without a valid access token.
C13_RefreshCookieRevoked ==
  [][\A s \in AllSlots :
       LET r == reqs[s]
           c == reqs[s].cookie
       IN (r.op = "logout" /\ r.pc # "done" /\ reqs'[s].pc = "done"
             /\ c \in issued /\ verifyRefreshToken(c) = "ok")
            => /\ \E e \in blacklist' : e.token = c /\ e.tokenType = "refresh"
               /\ c \notin Stored(users', c.userId)]_vars

\* C14: a refresh cookie that fails verification does not fail logout: no
\* entry is created for it, the access token is revoked as without a cookie,
\* and the answer is 200 with the cookie cleared.
C14_BadCookieDoesNotFailLogout ==
  [][\A s \in AllSlots :
       LET r == reqs[s]
           c == reqs[s].cookie
           t == reqs[s].bearer
           q == reqs'[s]
       IN (r.op = "logout" /\ r.pc # "done" /\ c # NoToken
             /\ verifyRefreshToken(c) # "ok")
            => /\ {e \in blacklist' : e.token = c} \subseteq findOne(c)
               /\ (r.pc = "lo_access" /\ q.pc = "done"
                     /\ (t = NoToken \/ ~BlacklistAccessFails(t)))
                    => (q.status = 200 /\ q.cleared)
               /\ (r.pc = "lo_refresh" /\ q.pc = "done")
                    => /\ q.status = 200 /\ q.cleared
                       /\ t # NoToken
                            => /\ t \in everRevoked'
                               /\ (now < t.exp => \E e \in blacklist' : e.token = t)]_vars

C14_Witness ==
  \E s \in AllSlots :
     /\ reqs[s].op = "logout" /\ reqs[s].pc = "lo_refresh"
     /\ reqs[s].cookie # NoToken /\ verifyRefreshToken(reqs[s].cookie) # "ok"
     /\ isBlacklisted(reqs[s].bearer)

\* C15: when logoutAll answers 200 the bearer has been revoked (its entry is
\* in the store unless it has expired meanwhile), every refresh token that
\* was on the user's list and verifies has an entry, and no token of that
\* list is on the stored list.  When nothing else has saved the user's
\* record since logoutAll loaded it, the answer is 200 and the stored list
\* is empty.
C15_LogoutAllRevokesList ==
  [][\A s \in AllSlots :
       LET r == reqs[s]
       IN (r.op = "logoutAll" /\ r.pc = "la_clear" /\ reqs'[s].pc = "done")
            => /\ users[r.user].v = r.docv
                    => reqs'[s].status = 200 /\ users'[r.user].refreshTokens = << >>
               /\ reqs'[s].status = 200
                    => /\ \A i \in 1..Len(r.doc) :
                            ~InList(r.doc[i], users'[r.user].refreshTokens)
                       /\ r.bearer \in everRevoked'
                       /\ now < r.bearer.exp => \E e \in blacklist' : e.token = r.bearer
                       /\ \A i \in 1..Len(r.doc) :
                            verifyRefreshToken(r.doc[i]) = "ok"
                              => \E e \in blacklist' : e.token = r.doc[i]]_vars

C15_Witness ==
  \E s \in AllSlots :
     /\ reqs[s].op = "logoutAll" /\ reqs[s].pc = "done" /\ reqs[s].status = 200
     /\ isBlacklisted(reqs[s].subj)
     /\ Cardinality({e \in blacklist : e.tokenType = "refresh"}) = 2
     /\ \A u \in Users : users[u].refreshTokens = << >>

\* C16: a turn of logoutAll's loop that fails (verification or insert) ends
\* in the next turn, never in a response, so every later token on the list
\* that verifies gets its entry.
C16_LoopContinuesAfterFailure ==
  [][\A s \in AllSlots :
       LET r == reqs[s]
           q == reqs'[s]
       IN (r.pc = "la_loop" /\ q # r)
            => /\ q.pc = IF r.idx < Len(r.doc) THEN "la_loop" ELSE "la_clear"
               /\ q.idx = r.idx + 1
               /\ q.doc = r.doc
               /\ verifyRefreshToken(r.doc[r.idx]) = "ok"
                    => \E e \in blacklist' : e.token = r.doc[r.idx]]_vars

\* The first stored token failed verification and the second was revoked.
C16_Witness ==
  \E s \in AllSlots :
     /\ reqs[s].op = "logoutAll" /\ reqs[s].pc = "la_clear"
     /\ Len(reqs[s].doc) = 2
     /\ verifyRefreshToken(reqs[s].doc[1]) # "ok" /\ ~isBlacklisted(reqs[s].doc[1])
     /\ isBlacklisted(reqs[s].doc[2])

\* C17: logoutAll writes entries only for its bearer and for the stored
\* refresh tokens, and authenticateToken still admits another unexpired
\* access token of the same user that was never revoked.
C17_OtherAccessTokensSurvive ==
  [][/\ \A e \in blacklist' \ blacklist :
          \E s \in AllSlots :
             \/ reqs[s].pc = "la_access" /\ e.token = reqs[s].bearer
             \/ reqs[s].pc = "la_loop" /\ e.token = reqs[s].doc[reqs[s].idx]
     /\ \A s \in AllSlots :
          (reqs[s].pc = "gate" /\ reqs'[s] # reqs[s]
             /\ ValidAccess(reqs[s].bearer) /\ reqs[s].bearer \notin everRevoked)
            => reqs'[s].pc = "gate_user"
     /\ \A s \in AllSlots :
          (reqs[s].pc = "gate_user" /\ reqs'[s] # reqs[s])
            => reqs'[s].pc = HandlerEntry(reqs[s].op)]_vars

\* After a logoutAll of the later session, the earlier session's access
\* token has passed the gate.
C17_Witness ==
  \E s \in AllSlots :
     /\ reqs[s].op = "logoutAll" /\ reqs[s].pc = "la_access"
     /\ ValidAccess(reqs[s].bearer)
     /\ users[reqs[s].bearer.userId].refreshTokens = << >>
     /\ \E t \in everRevoked :
          /\ t.type = "access" /\ t.userId = reqs[s].bearer.userId
          /\ t.id > reqs[s].bearer.id

\* C18 as stated: every entry's expiresAt is the exp claim of its token.
C18_ExpiresAtIsTokenExp ==
  \A e \in blacklist : e.expiresAt = e.token.exp

\* C19: cleanup at time now removes exactly the entries with expiresAt <=
\* now, reports how many they were and leaves the others as they are, so the
\* lookup is false for the removed tokens and true for the remaining ones.
C19_CleanupRemovesExactlyExpired ==
  [][\A s \in AllSlots :
       (reqs[s].pc = "cl_delete" /\ reqs'[s].pc = "done")
         => /\ blacklist' = {e \in blacklist : e.expiresAt > now}
            /\ reqs'[s].status = 200
            /\ reqs'[s].count = Cardinality({e \in blacklist : e.expiresAt <= now})
            /\ \A t \in issued :
                 (\E e \in blacklist' : e.token = t)
                   <=> (\E e \in blacklist : e.token = t /\ e.expiresAt > now)]_vars

\* One entry had expired and one had not: one removed, count 1.
C19_Witness ==
  \E s \in AllSlots :
     /\ reqs[s].op = "cleanup" /\ reqs[s].pc = "done"
     /\ reqs[s].count = 1
     /\ Cardinality(blacklist) = 1

\* C20: checkToken changes neither the store nor any user, and for a string
\* without an entry, a JWT or not, it answers 200 with isBlacklisted false.
C20_CheckTokenPureRead ==
  [][\A s \in AllSlots :
       (reqs[s].pc = "ct_find" /\ reqs'[s].pc = "done")
         => /\ blacklist' = blacklist
            /\ users' = users
            /\ findOne(reqs[s].body) = {}
                 => (reqs'[s].status = 200 /\ ~reqs'[s].isBl)]_vars

C20_Witness ==
  \E s \in AllSlots :
     /\ reqs[s].op = "check" /\ reqs[s].pc = "done"
     /\ reqs[s].subj = Garbage
     /\ reqs[s].status = 200 /\ ~reqs[s].isBl

\* C21: a gate that is handed a bearer failing the signature or the expiry
\* check answers at once and has not consulted the store for it.
C21_VerifyBeforeLookup ==
  [][\A s \in AllSlots :
       (reqs[s].pc \in {"gate", "sv"} /\ reqs'[s].pc # reqs[s].pc
          /\ reqs[s].bearer # NoToken
          /\ JwtVerify(reqs[s].bearer, "access") # "ok")
         => (reqs'[s].pc = "done" /\ ~reqs'[s].looked)]_vars

\* C22: authenticateToken sets req.user and calls next() only for a bearer
\* that was supplied, verified under the access secret and unexpired, of
\* type access and without an entry when the gate checked it, and whose
\* subject exists and is active when the gate looked it up.
C22_PrincipalOnlyIfAllHold ==
  [][\A s \in AllSlots :
       LET r == reqs[s]
           b == r.bearer
       IN /\ (r.op \in GatedOps /\ r.pc = "gate" /\ reqs'[s].pc = "gate_user")
               => /\ b # NoToken
                  /\ b.sig = "access" \/ (secretsEqual /\ b.sig \in Kinds)
                  /\ now < b.exp
                  /\ b.type = "access"
                  /\ ~\E e \in blacklist : e.token = b
          /\ (r.op \in GatedOps /\ r.user = NoUser /\ reqs'[s].user # NoUser)
               => /\ r.pc = "gate_user"
                  /\ users[b.userId].exists /\ users[b.userId].isActive
                  /\ reqs'[s].user = b.userId]_vars

\* /auth/me reached its handler with req.user set, while the store holds an
\* entry (of another token).
C22_Witness ==
  \E s \in AllSlots :
     /\ reqs[s].op = "me" /\ reqs[s].pc = "me_find"
     /\ reqs[s].user = reqs[s].bearer.userId
     /\ blacklist # {}

\* C23: POST /auth/refresh with an unexpired token that was minted as an
\* access token is answered 401 INVALID_TOKEN_TYPE, whether or not the two
\* secrets are equal.
C23_AccessAtRefreshIsWrongKind ==
  \A s \in AllSlots :
     (reqs[s].op = "refresh" /\ reqs[s].pc = "done"
        /\ reqs[s].subj.type = "access" /\ reqs[s].subj.sig = "access"
        /\ now < reqs[s].subj.exp)
       => (reqs[s].status = 401 /\ reqs[s].error = "INVALID_TOKEN_TYPE")

\* C24: authenticateToken admits no token minted as a refresh token, and
\* POST /auth/refresh issues an access token for no token minted as an
\* access token, whether or not the two secrets are equal.
C24_KindsNeverConfused ==
  [][\A s \in AllSlots :
       /\ (reqs[s].pc = "gate" /\ reqs'[s].pc = "gate_user")
            => reqs[s].bearer.type # "refresh"
       /\ (reqs[s].op = "refresh" /\ reqs[s].pc # "done"
             /\ (reqs'[s].status = 200 \/ issued' # issued))
            => reqs[s].cookie.type # "access"]_vars

\* With equal secrets a refresh token passed the signature check of the
\* gate and was turned away for its type.
C24_Witness ==
  \E s \in AllSlots :
     /\ secretsEqual
     /\ reqs[s].op = "me" /\ reqs[s].pc = "done"
     /\ reqs[s].subj.type = "refresh"
     /\ reqs[s].error = "INVALID_TOKEN_TYPE"

\* C25: authenticateToken answers a correctly signed but expired bearer with
\* 401 TOKEN_EXPIRED and a bearer whose signature or structure is invalid
\* with 401 INVALID_TOKEN.
C25_GateFailureCodes ==
  [][\A s \in AllSlots :
       LET b == reqs[s].bearer
           q == reqs'[s]
       IN (reqs[s].pc = "gate" /\ q.pc # "gate" /\ b # NoToken)
            => /\ JwtVerify(b, "access") = "TokenExpiredError"
                    => (q.status = 401 /\ q.error = "TOKEN_EXPIRED")
               /\ JwtVerify(b, "access") = "JsonWebTokenError"
                    => (q.status = 401 /\ q.error = "INVALID_TOKEN")]_vars

\* The step a request is about to take calls the database.
StoreOpAt(r) ==
  CASE r.pc = "gate" ->
         r.bearer # NoToken /\ verifyAccessToken(r.bearer) = "ok" /\ r.bearer.type = "access"
    [] r.pc \in {"lo_access", "la_access"} ->
         r.bearer # NoToken /\ verifyAccessToken(r.bearer) = "ok"
    [] r.pc = "lo_refresh" -> verifyRefreshToken(r.cookie) = "ok"
    [] r.pc = "la_loop" -> verifyRefreshToken(r.doc[r.idx]) = "ok"
    [] r.pc = "iv_check" ->
         r.body # NoToken /\ r.btype \in Kinds /\ VerifyAs(r.btype, r.body) = "ok"
    [] r.pc \in {"gate_user", "oa_user", "lo_find", "lo_remove", "la_find",
                 "la_clear", "iv_create", "iv_find", "iv_remove", "ct_find",
                 "cl_delete"} -> TRUE
    [] OTHER -> FALSE

HandlerStages ==
  {"lo_access", "lo_find", "lo_remove", "lo_refresh", "la_access", "la_find",
   "la_loop", "la_clear", "iv_check", "iv_create", "iv_find", "iv_remove",
   "ct_find", "cl_delete"}

\* The database calls whose failure the code catches and logs without
\* failing the request.
Swallowed == {"lo_refresh", "la_loop", "oa_user"}

\* C26 as stated: a database call that fails inside logout, logoutAll,
\* invalidateToken, checkToken or cleanupTokens is answered with the generic
\* 500 SERVER_ERROR without detail.
C26_StoreFailureIs500 ==
  [][\A s \in AllSlots :
       LET r == reqs[s]
           q == reqs'[s]
       IN (r.fault /\ r.pc \in HandlerStages /\ StoreOpAt(r) /\ q # r)
            => (q.pc = "done" /\ q.status = 500 /\ q.error = "SERVER_ERROR"
                  /\ q.detail = "none")]_vars

\* C26, amended: no response carries detail of a database exception; a
\* failing database call is answered with the generic 500 (SERVER_ERROR in
\* the handlers, AUTH_FAILED in authenticateToken), except the insert of a
\* refresh token in logout and in the loop of logoutAll and the user lookup
\* of optionalAuth, whose failure is caught and does not fail the request.
C26_StoreFailureIsGenericOrSwallowed ==
  [][\A s \in AllSlots :
       LET r == reqs[s]
           q == reqs'[s]
       IN /\ q.detail = "none"
          /\ (r.fault /\ StoreOpAt(r) /\ q # r)
               => IF r.pc \in Swallowed
                  THEN q.status # 500 /\ blacklist' = blacklist /\ users' = users
                  ELSE /\ q.pc = "done" /\ q.status = 500
                       /\ q.error = IF r.pc \in {"gate", "gate_user"}
                                    THEN "AUTH_FAILED" ELSE "SERVER_ERROR"
                       /\ blacklist' = blacklist /\ users' = users]_vars

\* The database failed under invalidateToken after verification: 500.
C26_Witness ==
  \E s \in AllSlots :
     /\ reqs[s].op = "invalidate" /\ reqs[s].pc = "done" /\ reqs[s].fault
     /\ reqs[s].looked
     /\ reqs[s].status = 500 /\ reqs[s].error = "SERVER_ERROR"
     /\ reqs[s].detail = "none"

\* C27: the users collection never holds two documents with one email, and
\* a registration that passes validation for an email that has a user, when
\* register looks it up or when it saves, is answered 409 USER_EXISTS and
\* creates nothing.
C27_OneUserPerEmail ==
  [][/\ \A a, b \in accounts' : a.email = b.email => a.id = b.id
     /\ \A s \in AllSlots :
          LET r == reqs[s]
              q == reqs'[s]
          IN (r.op = "register" /\ r.pc \in {"rg_find", "rg_save"} /\ q # r
                /\ r.pw = "strong" /\ findByEmail(r.email) # {})
               => (q.status = 409 /\ q.error = "USER_EXISTS"
                     /\ accounts' = accounts)]_vars

\* Two registrations for one email in flight: one has saved its user and
\* not yet answered, the other is answered 409.
C27_Witness ==
  \E s, o \in AllSlots :
     /\ reqs[s].op = "register" /\ reqs[s].pc = "done"
     /\ reqs[s].error = "USER_EXISTS"
     /\ reqs[o].op = "register" /\ reqs[o].pc = "rg_add"
     /\ Cardinality(accounts) = 1

\* C28: of two invalidateToken requests in flight for the same valid token,
\* the one whose insert comes second (the other has inserted the entry and
\* has not answered yet) is answered 409, never 500, and the store holds one
\* entry for the token.
C28_ConcurrentInvalidateNo500 ==
  [][\A s, o \in AllSlots :
       (s # o /\ reqs[s].op = "invalidate" /\ reqs[o].op = "invalidate"
          /\ reqs[o].pc \in {"iv_find", "iv_remove"}
          /\ reqs[o].body = reqs[s].body
          /\ reqs[s].pc = "iv_create" /\ reqs'[s].pc = "done")
         => /\ reqs'[s].status = 409
            /\ Cardinality({e \in blacklist' : e.token = reqs[s].body}) = 1]_vars

\* C29: no step, of cleanup or of anything running beside it, removes an
\* entry whose expiresAt is later than now, and a lookup (check-token, or
\* the gate for a bearer that verifies) for a token with such an entry finds
\* it.
C29_CleanupKeepsUnexpired ==
  [][/\ \A e \in blacklist : e.expiresAt > now => e \in blacklist'
     /\ \A s \in AllSlots :
          LET r == reqs[s]
              q == reqs'[s]
          IN /\ (r.pc = "ct_find" /\ q.pc = "done"
                   /\ \E e \in blacklist : e.token = r.body /\ e.expiresAt > now)
                  => (q.status = 200 /\ q.isBl)
             /\ (r.pc = "gate" /\ q.pc # "gate"
                   /\ verifyAccessToken(r.bearer) = "ok" /\ r.bearer.type = "access"
                   /\ \E e \in blacklist : e.token = r.bearer /\ e.expiresAt > now)
                  => q.error = "TOKEN_BLACKLISTED"]_vars

\* The cleanup route removed one entry and left an unexpired one, while an
\* invalidate-token request was in flight.
C29_Witness ==
  /\ reqs[2].op = "cleanup" /\ reqs[2].pc = "done" /\ reqs[2].count = 1
  /\ \E e \in blacklist : e.expiresAt > now
  /\ reqs[1].op = "invalidate" /\ reqs[1].pc \notin {"idle", "done"}

\* C30: POST /auth/refresh never answers 200 for a refresh token that has an
\* entry in the store at the moment refreshToken looks the user up, whatever
\* logout, logoutAll or invalidateToken request is in flight beside it.
C30_RevokedRefreshNeverAccepted ==
  [][\A s \in AllSlots :
       (reqs[s].op = "refresh" /\ reqs[s].pc = "rf_find"
          /\ \E e \in blacklist : e.token = reqs[s].cookie)
         => reqs'[s].status # 200]_vars

ExpiredPresent == \E e \in blacklist : Expired(e)

\* C32: with the hourly timer running, whenever the store holds an entry
\* whose expiresAt has passed, a later state holds none: every such entry is
\* eventually removed, whatever runs of the timer failed before.
C32_ExpiredEventuallyRemoved == ExpiredPresent ~> ~ExpiredPresent

\* Entries were written, time passed and the timer, the only remover here,
\* has emptied the store.
C32_Witness ==
  /\ everRevoked # {}
  /\ blacklist = {}
  /\ now >= AccessTTL

\* C33: one run of the reaper (the cleanup route or the timer) removes at
\* most BatchSize entries.
C33_CleanupInBoundedBatches ==
  [][Cardinality(blacklist \ blacklist') <= BatchSize]_vars

\* C34: an entry of the store is created and deleted and nothing else: every
\* entry of the next state either was there, field for field, or is the
\* first entry of its token.
C34_EntriesImmutable ==
  [][\A e \in blacklist' :
       e \in blacklist \/ ~\E x \in blacklist : x.token = e.token]_vars

\* A logout arrived for a token revoked at an earlier time and was answered:
\* the entry of then is still the entry of the token.
C34_Witness ==
  \E s \in AllSlots :
     /\ reqs[s].op = "logout" /\ reqs[s].pc = "done"
     /\ Pre(reqs[s])
     /\ reqs[s].orig \subseteq blacklist
     /\ \E e \in reqs[s].orig : e.blacklistedAt < now

\* C36: refreshToken goes on to the user lookup only for a cookie that was
\* supplied, passes verifyRefreshToken and has type refresh, and issues an
\* access token (answers 200) only if the owner exists, is active and has
\* the token on the stored list; no other step of the route issues a token.
C36_RefreshOnlyIfAllHold ==
  [][\A s \in AllSlots :
       LET r == reqs[s]
           c == r.cookie
       IN r.op = "refresh"
            => /\ (r.pc = "rf_verify" /\ reqs'[s].pc = "rf_find")
                    => /\ c # NoToken
                       /\ c.sig = "refresh" \/ (secretsEqual /\ c.sig \in Kinds)
                       /\ now < c.exp
                       /\ c.type = "refresh"
               /\ (reqs'[s].status = 200 /\ r.status # 200)
                    => /\ r.pc = "rf_find"
                       /\ users[c.userId].exists /\ users[c.userId].isActive
                       /\ \E i \in 1..Len(users[c.userId].refreshTokens) :
                             users[c.userId].refreshTokens[i] = c
                       /\ issued' = issued \cup {generateAccessToken(c.userId, 0)}
               /\ (r.pc # "done" /\ reqs'[s] # r /\ reqs'[s].status # 200)
                    => issued' = issued]_vars

\* A refresh token was presented and answered with a new access token.
C36_Witness ==
  \E s \in AllSlots :
     /\ reqs[s].op = "refresh" /\ reqs[s].pc = "done" /\ reqs[s].status = 200
     /\ reqs[s].subj.type = "refresh"

\* C37: the tokenType of every entry is the type claim of its token.
C37_EntryKindIsTokenType ==
  \A e \in blacklist : e.tokenType = e.token.type

\* C38: BlacklistedToken.blacklistToken returns an entry of the requested
\* token, never null.
C38_BlacklistTokenNeverNull ==
  \A s \in AllSlots :
     (reqs[s].op = "blacklistToken" /\ reqs[s].pc = "done")
       => \E e \in reqs[s].ent : e.token = reqs[s].subj

\* C39: the reason of an entry names the operation that created it: an entry
\* added by logout has reason logout, one added by logoutAll has reason
\* logout-all, and one added by invalidateToken has reason manual-invalidation.
C39_ReasonNamesOperation ==
  [][\A s \in AllSlots : \A e \in blacklist' \ blacklist :
       reqs'[s] # reqs[s]
         => /\ reqs[s].op = "logout" => e.reason = "logout"
            /\ reqs[s].op = "logoutAll" => e.reason = "logout-all"
            /\ reqs[s].op = "invalidate" => e.reason = "manual-invalidation"]_vars

\* C40: in the demo logout server an entry never expires before the token
\* it revokes, and a token that was revoked through /api/logout,
\* /api/logout-all or /api/invalidate-token before a request arrived is
\* never let through validateToken.
C40_SimpleEntryOutlivesToken ==
  /\ \A e \in blacklist : e.expiresAt >= e.token.exp
  /\ \A s \in AllSlots :
        (reqs[s].op \in {"simpleLogout", "simpleLogoutAll"} /\ reqs[s].pc = "s_save")
          => ~reqs[s].rev

\* A token revoked at an earlier time is presented again, after its entry's
\* token has aged, and validateToken turns it away as invalidated.
C40_Witness ==
  \E s \in AllSlots :
     /\ reqs[s].op \in {"simpleLogout", "simpleLogoutAll"}
     /\ reqs[s].pc = "done" /\ reqs[s].status = 401
     /\ reqs[s].error = "Token has been invalidated"
     /\ reqs[s].rev
     /\ \E e \in blacklist : e.token = reqs[s].subj /\ e.blacklistedAt < now
                             /\ e.expiresAt > e.token.exp

\* C35: getSessions reports exactly the tokens of the subject's list that
\* have no entry and pass verifyRefreshToken when the loop examines them.
\* The loop starts from the stored list, examines every element once, adds
\* the element to activeSessions if and only if it has no entry and
\* verifies, removes nothing from what it has reported, and totalSessions is
\* the number of reported sessions.
C35_SessionsAreActiveTokens ==
  [][\A s \in AllSlots :
       LET r == reqs[s]
           q == reqs'[s]
       IN /\ (r.pc = "gs_find" /\ q.pc = "gs_loop")
               => q.doc = users[r.user].refreshTokens /\ q.idx = 1 /\ q.sessions = << >>
          /\ (r.pc = "gs_loop" /\ q # r /\ q.status # 500)
               => LET t == r.doc[r.idx]
                      active == ~isBlacklisted(t) /\ verifyRefreshToken(t) = "ok"
                  IN /\ q.pc = "gs_remove" => ~active /\ q.sessions = r.sessions
                     /\ q.pc # "gs_remove"
                          => /\ q.sessions = IF active THEN Append(r.sessions, t)
                                             ELSE r.sessions
                             /\ q.pc = IF r.idx < Len(r.doc) THEN "gs_loop" ELSE "done"
                     /\ q.pc = "gs_loop" => q.idx = r.idx + 1 /\ q.doc = r.doc
          /\ (r.pc = "gs_remove" /\ q # r /\ q.status # 500)
               => /\ q.sessions = r.sessions
                  /\ q.pc = IF r.idx < Len(r.doc) THEN "gs_loop" ELSE "done"
                  /\ q.pc = "gs_loop" => q.idx = r.idx + 1 /\ q.doc = r.doc
          /\ (q.op = "sessions" /\ q.pc = "done" /\ q.status = 200)
               => q.count = Len(q.sessions)]_vars

\* getSessions answered 200 with one session for a subject whose list held
\* two tokens, the other one having an entry in the store.
C35_Witness ==
  \E s \in AllSlots :
     /\ reqs[s].op = "sessions" /\ reqs[s].pc = "done" /\ reqs[s].status = 200
     /\ reqs[s].count = 1
     /\ ~isBlacklisted(reqs[s].sessions[1])
     /\ \E e \in blacklist : e.tokenType = "refresh" /\ e.token # reqs[s].sessions[1]

\* C31: once logoutAll has answered 200, no refresh token that was on the
\* subject's list when the request arrived is on the stored list, and no
\* /auth/refresh request is answered with a new access token for such a
\* token, whatever logout, getSessions or invalidate-token request saves
\* the same user's record meanwhile.
C31_ClearedTokensStayCleared ==
  [][\A s \in AllSlots :
       (reqs'[s].op = "logoutAll" /\ reqs'[s].pc = "done" /\ reqs'[s].status = 200)
         => \A i \in 1..Len(reqs'[s].held) :
              LET t == reqs'[s].held[i]
              IN /\ ~InList(t, users'[t.userId].refreshTokens)
                 /\ \A x \in AllSlots :
                      (reqs[s].pc = "done" /\ reqs[x].pc = "rf_find"
                       /\ reqs[x].cookie = t /\ reqs'[x].pc = "done")
                        => reqs'[x].status # 200]_vars

\* logoutAll answered 200 for a list of two tokens, and afterwards a request
\* that had loaded the user's record before the list was cleared failed to
\* save it.
C31_Witness ==
  /\ reqs[1].op = "logoutAll" /\ reqs[1].pc = "done" /\ reqs[1].status = 200
  /\ Len(reqs[1].held) = 2
  /\ reqs[2].op \in {"logout", "sessions", "invalidate"}
  /\ reqs[2].pc = "done" /\ reqs[2].error = "SERVER_ERROR"
  /\ users[reqs[1].subj.userId].v = 3

====
